---- MODULE Spec2Model ----
(***************************************************************************)
(* Model of the JSON-RPC 2.0 endpoint of the Telos EVM plugin for          *)
(* Hyperion: the dispatcher (doRpcMethod / doRpcPayload), the error        *)
(* envelopes it builds (jsonRPC2Error, TransactionError) and the           *)
(* eth_getLogs handler.                                                    *)
(*                                                                         *)
(* Strings whose content the code inspects (error messages, addresses      *)
(* and hex strings) are sequences of one-character strings; other strings  *)
(* are TLA+ strings.  The JS value undefined is the string "undefined", or *)
(* the token Undef where the value would be a character sequence.          *)
(***************************************************************************)
EXTENDS Integers, Sequences, FiniteSets, TLC

\* ------------------------------------------------------------ bounds ----
MaxBatch == 2

\* ------------------------------------------------- program constants ----
EOSIO_ASSERTION_PREFIX ==
    << "a","s","s","e","r","t","i","o","n"," ",
       "f","a","i","l","u","r","e"," ",
       "w","i","t","h"," ",
       "m","e","s","s","a","g","e",":"," " >>

EOSIO_ASSERT_CODE == 3050003

\* --------------------------------------------------- input universes ----
\* The jsonrpc field of a request: not set, "2.0", another version, or an
\* explicit empty string (a falsy JS value that is not "not set").
Versions == { "undefined", "2.0", "1.0", "" }

Ids == { 1, 2 }

\* methods.has(method): the registered handlers and one unknown name.
RegisteredMethods == { "eth_chainId", "eth_call", "eth_getLogs" }
Methods == { "eth_chainId", "eth_call", "bogus" }

\* A decoded JSON entry of the payload: a request object, or the JSON null.
\* The request objects tried carry every version and every method; the id
\* varies on the requests of version "2.0".
NullEntry == [ isNull |-> TRUE, jsonrpc |-> "undefined", id |-> 0, method |-> "undefined" ]
RequestObjects ==
    { r \in [ isNull : {FALSE}, jsonrpc : Versions, id : Ids, method : Methods ] :
        r.jsonrpc = "2.0" \/ r.id = 1 }
Entries == RequestObjects \cup { NullEntry }

\* ----------------------------------------------------------- strings ----
Undef == << "<undefined>" >>

Min(a, b) == IF a < b THEN a ELSE b

\* String.prototype.startsWith
StartsWith(s, p) == Len(s) >= Len(p) /\ SubSeq(s, 1, Len(p)) = p

\* String.prototype.substr(start, length)
Substr(s, start, length) == SubSeq(s, start + 1, Min(Len(s), start + length))

MsgRevert == << "r","e","v","e","r","t" >>
MsgBoom   == << "b","o","o","m" >>
MsgShort  == << "a","s","s","e","r","t","i","o","n"," ","x" >>

\* ------------------------------------------------- handler outcomes ----
\* What `await func(params)` can produce: a result, or a thrown value that
\* is a TransactionError, an eosjs RpcError of a ledger assertion
\* (e.json.error.code === 3050003) or any other exception.
\*   details: the shape of e.json.error.details
\*     "undefined"  details is not set
\*     "empty"      details is [] (or details[0] has no message)
\*     "message"    details[0].message is `text`
\* The result slot of an outcome or envelope that carries no result.
NoResult == << >>

OutcomeResult(r) ==
    [ type |-> "result", result |-> r, hasCode |-> FALSE, code |-> 0,
      text |-> Undef, data |-> "undefined", details |-> "undefined" ]

OutcomeTxError(hasCode, code, errorMessage, data) ==
    [ type |-> "TransactionError", result |-> NoResult, hasCode |-> hasCode,
      code |-> code, text |-> errorMessage, data |-> data, details |-> "undefined" ]

OutcomeAssertion(details, message) ==
    [ type |-> "assertion", result |-> NoResult, hasCode |-> TRUE,
      code |-> EOSIO_ASSERT_CODE, text |-> message, data |-> "undefined",
      details |-> details ]

OutcomeOther(message) ==
    [ type |-> "other", result |-> NoResult, hasCode |-> FALSE, code |-> 0,
      text |-> message, data |-> "undefined", details |-> "undefined" ]

Results == { << "0", "x", "2", "8" >> }
TxCodes == { -32000 }
TxData  == { "undefined", "0x08c379a0" }

\* No throw site of the repository sets `code`; the interface allows one.
TxErrors ==
    { OutcomeTxError(FALSE, 0, MsgRevert, d) : d \in TxData }
    \cup { OutcomeTxError(TRUE, c, MsgRevert, "0x08c379a0") : c \in TxCodes }

NoOutcome ==
    [ type |-> "none", result |-> NoResult, hasCode |-> FALSE, code |-> 0,
      text |-> Undef, data |-> "undefined", details |-> "undefined" ]

AssertionErrors ==
    { OutcomeAssertion("undefined", Undef),
      OutcomeAssertion("empty", Undef),
      OutcomeAssertion("message", EOSIO_ASSERTION_PREFIX \o MsgBoom),
      OutcomeAssertion("message", MsgShort),
      OutcomeAssertion("message", MsgBoom) }

OtherErrors == { OutcomeOther(MsgBoom), OutcomeOther(Undef) }

\* --------------------------------------------------------- envelopes ----
\* A JSON-RPC response object.  hasResult / hasError say which of the keys
\* `result` and `error` the object carries; data = "absent" means the error
\* object has no `data` key.
ResultEnvelope(jsonrpc, id, result) ==
    [ jsonrpc |-> jsonrpc, id |-> id, hasResult |-> TRUE, result |-> result,
      hasError |-> FALSE, code |-> 0, message |-> Undef, data |-> "absent" ]

ErrorEnvelope(jsonrpc, id, code, message, data) ==
    [ jsonrpc |-> jsonrpc, id |-> id, hasResult |-> FALSE, result |-> NoResult,
      hasError |-> TRUE, code |-> code, message |-> message, data |-> data ]

NoEnvelope == ErrorEnvelope("undefined", 0, 0, Undef, "absent")

\* jsonRPC2Error: the switch over `type`, error code part.
ErrorCode_NotFoundAsInvalid(type) ==
    CASE type = "InvalidRequest" -> -32600
      [] type = "MethodNotFound" -> -32600
      [] type = "ParseError"     -> -32700
      [] type = "InvalidParams"  -> -32602
      [] type = "InternalError"  -> -32603
      [] OTHER                   -> -32603

ErrorCode(type) ==
    CASE type = "InvalidRequest" -> -32600
      [] type = "MethodNotFound" -> -32601
      [] type = "ParseError"     -> -32700
      [] type = "InvalidParams"  -> -32602
      [] type = "InternalError"  -> -32603
      [] OTHER                   -> -32603

\* jsonRPC2Error: the switch over `type`, reply.statusCode part.
ErrorStatus(type) ==
    CASE type = "InvalidRequest" -> 400
      [] type = "MethodNotFound" -> 404
      [] type = "ParseError"     -> 400
      [] type = "InvalidParams"  -> 400
      [] type = "InternalError"  -> 500
      [] OTHER                   -> 500

\* jsonRPC2Error(reply, type, requestId, message): the envelope it returns
\* and the reply status it leaves (`if (reply) reply.statusCode = ...`).
jsonRPC2Error(hasReply, status, type, requestId, message) ==
    [ envelope   |-> ErrorEnvelope("2.0", requestId, ErrorCode(type), message, "absent"),
      statusCode |-> IF hasReply THEN ErrorStatus(type) ELSE status ]

\* ------------------------------------------------------- doRpcMethod ----
\* `if (!jsonrpc) jsonrpc = "2.0"`: every falsy value is replaced.
Falsy(v) == v \in { "undefined", "" }

NormalizedVersion(jsonrpc) == IF Falsy(jsonrpc) THEN "2.0" ELSE jsonrpc

\* `let error: any = { code: 3 }`
DefaultErrorCode_Internal == ErrorCode("InternalError")

DefaultErrorCode == 3

\* `let code = e.code || 3`
TransactionErrorCode_Always3(e) == 3

TransactionErrorCode(e) == IF e.hasCode /\ e.code # 0 THEN e.code ELSE 3

\* The part of doRpcMethod that runs synchronously when it is called: the
\* destructuring of the request, the version check and the method lookup.
\*   settle = "rejected"   the async function threw (destructuring null)
\*   settle = "fulfilled"  it returned an envelope without calling a handler
\*   settle = "pending"    the handler was called and is awaited
doRpcMethodCall(entry, hasReply, status) ==
    IF entry.isNull
    THEN [ settle |-> "rejected", envelope |-> NoEnvelope,
           statusCode |-> status, invoked |-> FALSE ]
    ELSE IF NormalizedVersion(entry.jsonrpc) # "2.0"
    THEN LET r == jsonRPC2Error(hasReply, status, "InvalidRequest", entry.id,
                                << "Invalid JSON RPC" >>)
         IN  [ settle |-> "fulfilled", envelope |-> r.envelope,
               statusCode |-> r.statusCode, invoked |-> FALSE ]
    ELSE IF entry.method \in RegisteredMethods
    THEN [ settle |-> "pending", envelope |-> NoEnvelope,
           statusCode |-> status, invoked |-> TRUE ]
    ELSE LET r == jsonRPC2Error(hasReply, status, "MethodNotFound", entry.id,
                                << "Invalid method: ", entry.method >>)
         IN  [ settle |-> "fulfilled", envelope |-> r.envelope,
               statusCode |-> r.statusCode, invoked |-> FALSE ]

\* The catch block's ledger-assertion branch:
\*   let message = e?.json?.error?.details[0]?.message;
\*   if (message.startsWith(PREFIX)) message = message.substr(PREFIX.length, ...)
\* Indexing an undefined `details`, or calling startsWith on an undefined
\* message, throws a TypeError out of the catch block.
AssertionThrows(e) == e.details # "message"

\* The assertion branch if substr started one character early
\* (`message.substr(PREFIX.length - 1)`)
AssertionMessage_OneCharEarly(e) ==
    IF StartsWith(e.text, EOSIO_ASSERTION_PREFIX)
    THEN Substr(e.text, Len(EOSIO_ASSERTION_PREFIX) - 1, Len(e.text) + 1)
    ELSE e.text

AssertionMessage(e) ==
    IF StartsWith(e.text, EOSIO_ASSERTION_PREFIX)
    THEN Substr(e.text, Len(EOSIO_ASSERTION_PREFIX), Len(e.text) + 1)
    ELSE e.text

\* The continuation of doRpcMethod after `await func(params)`: the return
\* of the try block, or the catch block.
doRpcMethodSettle(entry, e) ==
    LET jsonrpc == NormalizedVersion(entry.jsonrpc)
        id      == entry.id
    IN  CASE e.type = "result" ->
               [ settle |-> "fulfilled",
                 envelope |-> ResultEnvelope(jsonrpc, id, e.result) ]
          [] e.type = "TransactionError" ->
               [ settle |-> "fulfilled",
                 envelope |-> ErrorEnvelope(jsonrpc, id, TransactionErrorCode(e),
                                            e.text, e.data) ]
          [] e.type = "assertion" ->
               IF AssertionThrows(e)
               THEN [ settle |-> "rejected", envelope |-> NoEnvelope ]
               ELSE [ settle |-> "fulfilled",
                      envelope |-> ErrorEnvelope(jsonrpc, id, DefaultErrorCode,
                                                 AssertionMessage(e), "absent") ]
          [] OTHER ->
               [ settle |-> "fulfilled",
                 envelope |-> ErrorEnvelope(jsonrpc, id, DefaultErrorCode,
                                            e.text, "absent") ]

\* The catch block never touches `reply`: the status after a handler has
\* completed is the status before.
StatusAfterHandler_Internal500(hasReply, status, e) ==
    IF e.type = "result" \/ ~hasReply THEN status ELSE 500

StatusAfterHandler(hasReply, status, e) == status

\* ------------------------------------------------------ hex strings ----
\* Addresses, topics and block hashes are sequences of characters.
Lower(c) ==
    CASE c = "A" -> "a" [] c = "B" -> "b" [] c = "C" -> "c"
      [] c = "D" -> "d" [] c = "E" -> "e" [] c = "F" -> "f"
      [] c = "X" -> "x" [] OTHER -> c

\* String.prototype.toLowerCase
ToLowerCase(s) == [ k \in 1..Len(s) |-> Lower(s[k]) ]

\* `s.startsWith('0x') ? s.slice(2) : s`, and s.replace(/^0x/, '')
Strip0x(s) == IF StartsWith(s, << "0", "x" >>) THEN SubSeq(s, 3, Len(s)) ELSE s

\* s.replace(/^(00)+/, '')
RECURSIVE TrimZeroBytes(_)
TrimZeroBytes(s) ==
    IF Len(s) >= 2 /\ s[1] = "0" /\ s[2] = "0"
    THEN TrimZeroBytes(SubSeq(s, 3, Len(s)))
    ELSE s

\* String.prototype.includes
Includes(s, sub) ==
    \E k \in 1..(Len(s) - Len(sub) + 1) : SubSeq(s, k, k + Len(sub) - 1) = sub

\* A JS string is truthy iff it is defined and not empty.
TruthyString(s) == s # Undef /\ s # << >>

\* removeZeroHexFromFilter(filter, trimLeftZeros) on one string
removeZeroHexFromFilter(filter, trimLeftZeros) ==
    IF ~TruthyString(filter)
    THEN filter
    ELSE LET noPrefix == ToLowerCase(Strip0x(filter))
         IN  IF trimLeftZeros THEN TrimZeroBytes(noPrefix) ELSE noPrefix

\* removeZeroHexFromFilter(filter, trimLeftZeros) on an array
removeZeroHexFromFilterArray(filter, trimLeftZeros) ==
    [ k \in 1..Len(filter) |-> removeZeroHexFromFilter(filter[k], trimLeftZeros) ]

\* ------------------------------------------------- eth_getLogs input ----
\* A block parameter of the filter object: "undefined" (not set), a tag,
\* a hex string, or "#n" for the JSON number n.
BlockParams == { "undefined", "latest", "earliest", "0x1", "0x2", "#0", "#2" }

\* JS truthiness of a block parameter: undefined and the number 0 are falsy.
TruthyBlockParam(p) == p \notin { "undefined", "#0" }

\* typeof(x) == 'string' ? parseInt(x, 16) : x
BlockParamToNumber(x) ==
    CASE x = "0x0" -> 0 [] x = "0x1" -> 1 [] x = "0x2" -> 2 [] x = "0x3" -> 3
      [] x = "#0" -> 0 [] x = "#1" -> 1 [] x = "#2" -> 2

\* What getCurrentBlockNumber(true) can give toBlockNumber: the indexed
\* head as a hex string, or an exception of the search backend.
Heads == { "0x2", "0x3", "throws" }

\* toBlockNumber(blockParam), given what getCurrentBlockNumber would return
toBlockNumber(blockParam, head) ==
    IF blockParam \in { "latest", "pending" } THEN head
    ELSE IF blockParam = "earliest" THEN "0x0"
    ELSE blockParam

\* The address member of the filter: not set, one string or an array.
AddrUndefined == [ kind |-> "undefined", items |-> << >> ]
AddrString(a) == [ kind |-> "string", items |-> << a >> ]
AddrArray(as) == [ kind |-> "array", items |-> as ]

\* One position of the topics member: null, one string or an array.
TopicNull == [ kind |-> "null", items |-> << >> ]
TopicString(t) == [ kind |-> "string", items |-> << t >> ]
TopicArray(ts) == [ kind |-> "array", items |-> ts ]

\* The topics member: not set, or an array of positions.
TopicsUndefined == [ kind |-> "undefined", items |-> << >> ]
TopicsArray(ps) == [ kind |-> "array", items |-> ps ]

\* ------------------------------------------------ the indexed receipts ---
AddrAB   == << "a", "b" >>
Addr00CD == << "0", "0", "c", "d" >>
TopicT1  == << "1", "1" >>
TopicT2  == << "0", "0", "2", "2" >>
HashB1   == << "b", "1" >>
HashB2   == << "b", "2" >>

Log(address, topics) == [ address |-> address, topics |-> topics ]

Doc(seq, block, blockHash, hash, logs) ==
    [ global_sequence |-> seq, block |-> block, block_hash |-> blockHash,
      hash |-> hash, logs |-> logs ]

DocA == Doc(10, 1, HashB1, "tx-a", << Log(AddrAB, << TopicT1 >>), Log(Addr00CD, << TopicT1, TopicT2 >>) >>)
DocB == Doc(12, 2, HashB2, "tx-b", << Log(AddrAB, << TopicT2 >>) >>)
DocC == Doc(11, 1, HashB1, "tx-c", << Log(Addr00CD, << >>) >>)
DocD == Doc(13, 3, << "b", "3" >>, "tx-d", << Log(AddrAB, << TopicT1 >>) >>)

\* The contents of the action index the handler may run against.
Indexes == { { DocA, DocB, DocC, DocD }, { DocB }, { } }

\* ------------------------------------------------------ eth_getLogs ----
MsgBlockHashWithRange == << "fromBlock/toBlock are not allowed with blockHash query" >>
MsgTypeError == << "TypeError" >>
MsgSearchError == << "search backend error" >>

\* Query preparation, address part: the filter as the handler rewrites it.
PreparedAddressFilter(addressFilter) ==
    CASE addressFilter.kind = "array" ->
            AddrArray([ k \in 1..Len(addressFilter.items) |->
                          ToLowerCase(Strip0x(addressFilter.items[k])) ])
      [] addressFilter.kind = "string" /\ TruthyString(addressFilter.items[1]) ->
            AddrString(Strip0x(ToLowerCase(addressFilter.items[1])))
      [] OTHER -> addressFilter

\* Query preparation, address part: the `term` clauses on @raw.logs.address.
AddressClause(addressFilter) ==
    LET f == PreparedAddressFilter(addressFilter)
    IN  CASE f.kind = "array" /\ Len(f.items) > 0 ->
                [ on |-> TRUE,
                  terms |-> { f.items[k] : k \in { j \in 1..Len(f.items) : f.items[j] # << >> } } ]
          [] f.kind = "string" /\ TruthyString(f.items[1]) ->
                [ on |-> TRUE, terms |-> { f.items[1] } ]
          [] OTHER -> [ on |-> FALSE, terms |-> {} ]

\* Query preparation, topics part: flatTopics of one position.
FlatTopicsOf(topic) ==
    CASE topic.kind = "array" ->
            { ToLowerCase(Strip0x(topic.items[k])) :
                k \in { j \in 1..Len(topic.items) : TruthyString(topic.items[j]) } }
      [] topic.kind = "string" /\ TruthyString(topic.items[1]) ->
            { ToLowerCase(Strip0x(topic.items[1])) }
      [] OTHER -> {}

\* Query preparation, topics part: the `terms` clause on @raw.logs.topics.
TopicsClause(topicsFilter) ==
    IF topicsFilter.kind = "array" /\ Len(topicsFilter.items) > 0
    THEN [ on |-> TRUE,
           terms |-> UNION { FlatTopicsOf(topicsFilter.items[k]) :
                               k \in 1..Len(topicsFilter.items) } ]
    ELSE [ on |-> FALSE, terms |-> {} ]

\* The sort of the search: hits in ascending global_sequence.
\* The sort of the search if it were `order: "desc"`
RECURSIVE SortBySequence_Descending(_)
SortBySequence_Descending(docs) ==
    IF docs = {} THEN << >>
    ELSE LET first == CHOOSE d \in docs :
                         \A o \in docs : d.global_sequence >= o.global_sequence
         IN  << first >> \o SortBySequence_Descending(docs \ { first })

RECURSIVE SortBySequence(_)
SortBySequence(docs) ==
    IF docs = {} THEN << >>
    ELSE LET first == CHOOSE d \in docs :
                         \A o \in docs : d.global_sequence <= o.global_sequence
         IN  << first >> \o SortBySequence(docs \ { first })

SearchSize == 2000

\* fastify.elastic.search with the handler's query: the documents of the
\* index that satisfy every `must` clause, sorted, at most `size` of them.
\*   blockTerm: [on, hash]; range: [gte on, gte, lte on, lte]
ElasticSearchLogs(index, blockTerm, range, addressClause, topicsClause) ==
    LET Matches(d) ==
            /\ Len(d.logs) > 0
            /\ blockTerm.on => d.block_hash = blockTerm.hash
            /\ range.hasGte => d.block >= range.gte
            /\ range.hasLte => d.block <= range.lte
            /\ addressClause.on =>
                  \E k \in 1..Len(d.logs) : d.logs[k].address \in addressClause.terms
            /\ topicsClause.on =>
                  \E k \in 1..Len(d.logs) :
                     \E t \in 1..Len(d.logs[k].topics) :
                        d.logs[k].topics[t] \in topicsClause.terms
        sorted == SortBySequence({ d \in index : Matches(d) })
    IN  SubSeq(sorted, 1, Min(Len(sorted), SearchSize))

\* hasTopics if a position tested whether the log's topic contains the
\* filter's
TopicPositionMatches_LogContainsFilter(topics, index, topic) ==
    LET logTopic == IF index <= Len(topics)
                    THEN removeZeroHexFromFilter(topics[index], TRUE)
                    ELSE Undef
    IN  CASE topic.kind = "null" -> TRUE
          [] topic.kind = "array" ->
                logTopic \in { removeZeroHexFromFilter(topic.items[k], TRUE) :
                                 k \in 1..Len(topic.items) }
          [] OTHER ->
                LET t == removeZeroHexFromFilter(topic.items[1], TRUE)
                IN  \/ (logTopic # Undef /\ Includes(logTopic, t))
                    \/ logTopic = t

\* hasTopics(topics, topicsFilter), one filter position against the log
TopicPositionMatches(topics, index, topic) ==
    LET logTopic == IF index <= Len(topics)
                    THEN removeZeroHexFromFilter(topics[index], TRUE)
                    ELSE Undef
    IN  CASE topic.kind = "null" -> TRUE
          [] topic.kind = "array" ->
                logTopic \in { removeZeroHexFromFilter(topic.items[k], TRUE) :
                                 k \in 1..Len(topic.items) }
          [] OTHER ->
                LET t == removeZeroHexFromFilter(topic.items[1], TRUE)
                IN  \/ (logTopic # Undef /\ Includes(t, logTopic))
                    \/ logTopic = t

hasTopics(topics, topicsFilter) ==
    \A index \in 1..Len(topicsFilter) :
        TopicPositionMatches(topics, index, topicsFilter[index])

\* logFilterMatch if an empty address list were treated like an absent
\* filter
logFilterMatch_EmptyListAsNoFilter(log, addressFilter, topicsFilter) ==
    LET thisAddr == removeZeroHexFromFilter(ToLowerCase(log.address), TRUE)
        addrOk ==
            CASE addressFilter.kind = "array" /\ Len(addressFilter.items) > 0 ->
                    thisAddr \in { removeZeroHexFromFilter(addressFilter.items[k], TRUE) :
                                     k \in 1..Len(addressFilter.items) }
              [] addressFilter.kind = "string" /\ TruthyString(addressFilter.items[1]) ->
                    thisAddr = removeZeroHexFromFilter(addressFilter.items[1], TRUE)
              [] OTHER -> TRUE
        topicsOk ==
            IF topicsFilter.kind = "array"
            THEN hasTopics(log.topics, topicsFilter.items)
            ELSE TRUE
    IN  addrOk /\ topicsOk

\* logFilterMatch if the addresses were compared without trimming their
\* leading zero bytes
logFilterMatch_NoZeroTrim(log, addressFilter, topicsFilter) ==
    LET thisAddr == removeZeroHexFromFilter(ToLowerCase(log.address), FALSE)
        addrOk ==
            CASE addressFilter.kind = "array" ->
                    thisAddr \in { removeZeroHexFromFilter(addressFilter.items[k], FALSE) :
                                     k \in 1..Len(addressFilter.items) }
              [] addressFilter.kind = "string" /\ TruthyString(addressFilter.items[1]) ->
                    thisAddr = removeZeroHexFromFilter(addressFilter.items[1], FALSE)
              [] OTHER -> TRUE
        topicsOk ==
            IF topicsFilter.kind = "array"
            THEN hasTopics(log.topics, topicsFilter.items)
            ELSE TRUE
    IN  addrOk /\ topicsOk

\* logFilterMatch(log, addressFilter, topicsFilter)
logFilterMatch(log, addressFilter, topicsFilter) ==
    LET thisAddr == removeZeroHexFromFilter(ToLowerCase(log.address), TRUE)
        addrOk ==
            CASE addressFilter.kind = "array" ->
                    thisAddr \in { removeZeroHexFromFilter(addressFilter.items[k], TRUE) :
                                     k \in 1..Len(addressFilter.items) }
              [] addressFilter.kind = "string" /\ TruthyString(addressFilter.items[1]) ->
                    thisAddr = removeZeroHexFromFilter(addressFilter.items[1], TRUE)
              [] OTHER -> TRUE
        topicsOk ==
            IF topicsFilter.kind = "array"
            THEN hasTopics(log.topics, topicsFilter.items)
            ELSE TRUE
    IN  addrOk /\ topicsOk

\* makeLogObject(doc, log, false); the checksum casing of the address and
\* the hex formatting of the numbers are left out.
makeLogObject(doc, log, logIndex) ==
    [ address |-> log.address,
      blockHash |-> << "0", "x" >> \o doc.block_hash,
      blockNumber |-> doc.block,
      logIndex |-> logIndex,
      topics |-> log.topics,
      transactionHash |-> doc.hash,
      removed |-> FALSE ]

\* The (document, log) pairs of the hits, in the order the loops visit them.
RECURSIVE HitLogs(_)
HitLogs(hits) ==
    IF hits = << >> THEN << >>
    ELSE [ k \in 1..Len(Head(hits).logs) |->
             [ doc |-> Head(hits), log |-> Head(hits).logs[k] ] ]
         \o HitLogs(Tail(hits))

\* The processing loops over the hits: the pairs that are not skipped, each
\* numbered with the running logCount.
\*   blockHash: the hash after the 0x prefix was cut; range: [from, to] or
\*   undefined bounds when the blockHash branch was taken.
ProcessHits(hits, blockHash, hasRange, fromBlock, toBlock, addressFilter, topicsFilter) ==
    LET Kept(pl) ==
            /\ IF ~TruthyString(blockHash)
               THEN ~(hasRange /\ (fromBlock > pl.doc.block \/ toBlock < pl.doc.block))
               ELSE blockHash = pl.doc.block_hash
            /\ logFilterMatch(pl.log, addressFilter, topicsFilter)
        kept == SelectSeq(HitLogs(hits), Kept)
    IN  [ k \in 1..Len(kept) |-> makeLogObject(kept[k].doc, kept[k].log, k - 1) ]

\* The catch block around the search and the processing if it threw the
\* exception on
GetLogsCatch_Rethrow == OutcomeOther(MsgSearchError)

\* The catch block around the search and the processing: `return []`
GetLogsCatch == OutcomeResult(<< >>)

\* The eth_getLogs handler.  headFrom / headTo are what the two calls of
\* toBlockNumber get for a "latest" bound, searchThrows whether the search
\* (or the processing of a hit) throws.
eth_getLogs(params, index, headFrom, headTo, searchThrows) ==
    IF ~params.defined
    THEN OutcomeOther(MsgTypeError)
    ELSE IF TruthyString(params.blockHash)
    THEN IF TruthyBlockParam(params.fromBlock) \/ TruthyBlockParam(params.toBlock)
         THEN OutcomeOther(MsgBlockHashWithRange)
         ELSE IF searchThrows
         THEN GetLogsCatch
         ELSE LET blockHash == Strip0x(params.blockHash)
                  hits == ElasticSearchLogs(index,
                              [ on |-> TRUE, hash |-> blockHash ],
                              [ hasGte |-> FALSE, gte |-> 0, hasLte |-> FALSE, lte |-> 0 ],
                              AddressClause(params.address),
                              TopicsClause(params.topics))
              IN  OutcomeResult(ProcessHits(hits, blockHash, FALSE, 0, 0,
                                            PreparedAddressFilter(params.address),
                                            params.topics))
    ELSE LET fromBlockExplicit ==
                 toBlockNumber(IF TruthyBlockParam(params.fromBlock)
                               THEN params.fromBlock ELSE "latest", headFrom)
             toBlockExplicit ==
                 toBlockNumber(IF TruthyBlockParam(params.toBlock)
                               THEN params.toBlock ELSE "latest", headTo)
         IN  IF fromBlockExplicit = "throws" \/ toBlockExplicit = "throws"
             THEN OutcomeOther(MsgSearchError)
             ELSE IF searchThrows
             THEN GetLogsCatch
             ELSE LET fromBlock == BlockParamToNumber(fromBlockExplicit)
                      toBlock   == BlockParamToNumber(toBlockExplicit)
                      hits == ElasticSearchLogs(index,
                                  [ on |-> FALSE, hash |-> << >> ],
                                  [ hasGte |-> fromBlock # 0, gte |-> fromBlock,
                                    hasLte |-> toBlock # 0, lte |-> toBlock ],
                                  AddressClause(params.address),
                                  TopicsClause(params.topics))
                  IN  OutcomeResult(ProcessHits(hits, Undef, TRUE, fromBlock, toBlock,
                                                PreparedAddressFilter(params.address),
                                                params.topics))

\* ------------------------------------------------------------- state ----
VARIABLES
    payload,     \* request.body: [isArray, entries]
    params,      \* params[0] of an eth_getLogs request: the filter object
    index,       \* the receipts in the action index of the search backend
    hasReply,    \* whether doRpcPayload was given a reply object
    statusCode,  \* reply.statusCode
    pc,          \* position of doRpcPayload
    i,           \* loop variable of the batch loop (1-based)
    promises,    \* the promises array: [settle, envelope] per dispatched entry
    invoked,     \* the entries whose handler was called
    outcomes,    \* what the handler of each dispatched entry produced
    response     \* the value doRpcPayload returned: [kind, items]

\* The state of the helpers the handlers are built from, each exercised by a
\* specification of its own.
VARIABLES
    query,       \* a block query: [by, key, full]
    receipts,    \* the hits getReceiptsByTerm returned for the query
    signatures,  \* trx ids whose first action carries signatures in the action index
    deltas,      \* the records of the delta index
    run,         \* two runs of the block query: position and locals of each
    logTopics,   \* hasTopics: the topics of the log
    topicsFilter,\* hasTopics: the positional filter
    accepted,    \* hasTopics: what it returned
    revertOutput,\* the failure payload handed to a decoder
    decoded,     \* which decoder ran on it
    reason,      \* parseRevertReason: the characters returned, by char code
    panicReason, \* parsePanicReason: the message returned
    cache,       \* the result cache: per key the value stored and whether it is still served
    req,         \* the concurrent requests that read through the cache
    writes       \* the setCachedData calls made so far, in order

\* The state of the handlers that are exercised on their own.
VARIABLES
    traced,      \* a trace request: the method, its arguments, what the search finds
    traces,      \* what the trace request produced
    groups,      \* trace_filter: the filter groups of the request
    itxIndex,    \* trace_filter: the receipts with internal calls in the action index
    filterRun,   \* trace_filter: position and locals of the handler
    rawResponse, \* eth_sendRawTransaction: what the ledger answered
    rawOutcome,  \* eth_sendRawTransaction: what the handler produced
    logsBackend, \* eth_getLogs: how the backend answered the handler
    logsReply    \* eth_getLogs: the handler's outcome and the envelope made of it

rpcVars == << payload, params, index, hasReply, statusCode, pc, i, promises, invoked, outcomes, response >>

blockVars == << query, receipts, signatures, deltas, run >>

topicVars == << logTopics, topicsFilter, accepted >>

decoderVars == << revertOutput, decoded, reason, panicReason >>

cacheVars == << cache, req, writes >>

traceVars == << traced, traces >>

filterVars == << groups, itxIndex, filterRun >>

rawVars == << rawResponse, rawOutcome >>

logsVars == << logsBackend, logsReply >>

handlerVars == << traceVars, filterVars, rawVars, logsVars >>

helperVars == << blockVars, topicVars, decoderVars, cacheVars, handlerVars >>

vars == << rpcVars, helperVars >>

\* The helpers at rest: what the dispatcher's specifications hold them at.
NoQuery == [ by |-> "none", number |-> 0, hash |-> << >>, full |-> FALSE ]

BlockIdle ==
    /\ query = NoQuery
    /\ receipts = << >>
    /\ signatures = {}
    /\ deltas = {}
    /\ run = << >>

TopicsIdle ==
    /\ logTopics = << >>
    /\ topicsFilter = << >>
    /\ accepted = "idle"

DecodersIdle ==
    /\ revertOutput = << >>
    /\ decoded = "idle"
    /\ reason = << >>
    /\ panicReason = ""

CacheIdle ==
    /\ cache = << >>
    /\ req = << >>
    /\ writes = << >>

TracesIdle ==
    /\ traced = [ method |-> "none" ]
    /\ traces = [ kind |-> "idle" ]

FilterIdle ==
    /\ groups = << >>
    /\ itxIndex = {}
    /\ filterRun = [ state |-> "idle" ]

RawIdle ==
    /\ rawResponse = [ kind |-> "none" ]
    /\ rawOutcome = [ type |-> "idle" ]

LogsIdle ==
    /\ logsBackend = [ state |-> "idle" ]
    /\ logsReply = [ state |-> "idle" ]

HandlersIdle == TracesIdle /\ FilterIdle /\ RawIdle /\ LogsIdle

HelpersIdle == BlockIdle /\ TopicsIdle /\ DecodersIdle /\ CacheIdle /\ HandlersIdle

\* The dispatcher at rest, for the specifications of the helpers.
RpcIdle ==
    /\ payload = [ isArray |-> TRUE, entries |-> << >> ]
    /\ params = [ defined |-> FALSE, blockHash |-> Undef,
                  fromBlock |-> "undefined", toBlock |-> "undefined",
                  address |-> AddrUndefined, topics |-> TopicsUndefined ]
    /\ index = {}
    /\ hasReply = TRUE
    /\ statusCode = 200
    /\ pc = "start"
    /\ i = 1
    /\ promises = << >>
    /\ invoked = {}
    /\ outcomes = << >>
    /\ response = [ kind |-> "pending", items |-> << >> ]

SeqsUpTo(S, n) == UNION { [1..m -> S] : m \in 0..n }

Payloads ==
    { [ isArray |-> TRUE, entries |-> s ] : s \in SeqsUpTo(Entries, MaxBatch) }
    \cup { [ isArray |-> FALSE, entries |-> << e >> ] : e \in Entries }

NoResponse == [ kind |-> "pending", items |-> << >> ]

\* The filter objects an eth_getLogs request may carry; NoParams is the
\* request without a filter object (`params: []`).
BlockHashParams == { Undef, << "0", "x", "b", "1" >>, HashB2 }

AddressParams ==
    { AddrUndefined,
      AddrString(<< "0", "x", "A", "B" >>),
      AddrArray(<< >>),
      AddrArray(<< << "0", "x", "0", "0", "a", "b" >>, << "0", "x", "0", "0", "C", "D" >> >>) }

TopicsParams ==
    { TopicsUndefined,
      TopicsArray(<< TopicNull, TopicString(<< "0", "x", "0", "0", "2", "2" >>) >>),
      TopicsArray(<< TopicArray(<< TopicT1 >>) >>) }

NoParams ==
    [ defined |-> FALSE, blockHash |-> Undef, fromBlock |-> "undefined",
      toBlock |-> "undefined", address |-> AddrUndefined, topics |-> TopicsUndefined ]

FilterObjects ==
    [ defined : { TRUE }, blockHash : BlockHashParams, fromBlock : BlockParams,
      toBlock : BlockParams, address : AddressParams, topics : TopicsParams ]

\* What `await func(params)` can produce for a registered method.
\* eth_chainId is `() => "0x" + opts.chainId.toString(16)`: it only returns.
\* eth_getLogs is the handler modelled above.  eth_call stands for the
\* handlers that query the ledger and may throw anything.
OutcomesOf(method) ==
    CASE method = "eth_chainId" -> { OutcomeResult(r) : r \in Results }
      [] method = "eth_getLogs" ->
            { eth_getLogs(params, index, headFrom, headTo, searchThrows) :
                headFrom \in Heads, headTo \in Heads, searchThrows \in BOOLEAN }
      [] OTHER -> { OutcomeResult(r) : r \in Results }
                  \cup TxErrors \cup AssertionErrors \cup OtherErrors

Init ==
    /\ payload \in Payloads
    /\ params = NoParams
    /\ index = {}
    /\ hasReply = TRUE      \* the /evm route always passes its FastifyReply
    /\ statusCode = 200
    /\ pc = "start"
    /\ i = 1
    /\ promises = << >>
    /\ invoked = {}
    /\ outcomes = << >>
    /\ response = NoResponse
    /\ HelpersIdle

N == Len(payload.entries)

\* doRpcPayload, `if (payload.length == 0) return`
BatchEmpty ==
    /\ pc = "start"
    /\ payload.isArray
    /\ N = 0
    /\ pc' = "returned"
    /\ response' = [ kind |-> "undefined", items |-> << >> ]
    /\ UNCHANGED << helperVars, payload, params, index, hasReply, statusCode, i, promises, invoked, outcomes >>

\* doRpcPayload, `let promises = []` and the entry of the for loop
BatchStart ==
    /\ pc = "start"
    /\ payload.isArray
    /\ N > 0
    /\ pc' = "loop"
    /\ i' = 1
    /\ promises' = << >>
    /\ UNCHANGED << helperVars, payload, params, index, hasReply, statusCode, invoked, outcomes, response >>

\* One call of doRpcMethod, up to its first await.
CallMethod(k) ==
    LET call == doRpcMethodCall(payload.entries[k], hasReply, statusCode)
    IN  /\ promises' = Append(promises, [ settle |-> call.settle,
                                         envelope |-> call.envelope ])
        /\ statusCode' = call.statusCode
        /\ invoked' = IF call.invoked THEN invoked \cup { k } ELSE invoked
        /\ outcomes' = Append(outcomes, NoOutcome)

\* One iteration of the for loop if it awaited each promise before the
\* next call (`promises.push(await doRpcMethod(...))`)
Dispatch_AwaitEach ==
    /\ pc = "loop"
    /\ i <= N
    /\ IF i = 1 THEN TRUE ELSE promises[i - 1].settle # "pending"
    /\ CallMethod(i)
    /\ i' = i + 1
    /\ pc' = IF i = N THEN "join" ELSE "loop"
    /\ UNCHANGED << helperVars, payload, params, index, hasReply, response >>

\* doRpcPayload, one iteration of the for loop; after the last one
\* Promise.all(promises) is awaited.
Dispatch ==
    /\ pc = "loop"
    /\ i <= N
    /\ CallMethod(i)
    /\ i' = i + 1
    /\ pc' = IF i = N THEN "join" ELSE "loop"
    /\ UNCHANGED << helperVars, payload, params, index, hasReply, response >>

\* The awaited handler of entry k settles (in any order among the entries)
\* and doRpcMethod runs to its return or out of its catch block.
HandlerComplete(k) ==
    /\ k \in 1..Len(promises)
    /\ promises[k].settle = "pending"
    /\ \E e \in OutcomesOf(payload.entries[k].method) :
          LET r == doRpcMethodSettle(payload.entries[k], e)
          IN  /\ promises' = [ promises EXCEPT ![k] =
                                 [ settle |-> r.settle, envelope |-> r.envelope ] ]
              /\ statusCode' = StatusAfterHandler(hasReply, statusCode, e)
              /\ outcomes' = [ outcomes EXCEPT ![k] = e ]
    /\ UNCHANGED << helperVars, payload, params, index, hasReply, pc, i, invoked, response >>

\* Promise.all resolves once every promise is fulfilled ...
JoinResolve ==
    /\ pc = "join"
    /\ \A k \in 1..N : promises[k].settle = "fulfilled"
    /\ pc' = "returned"
    /\ response' = [ kind |-> "array",
                     items |-> [ k \in 1..N |-> promises[k].envelope ] ]
    /\ UNCHANGED << helperVars, payload, params, index, hasReply, statusCode, i, promises, invoked, outcomes >>

\* ... and rejects as soon as one promise is rejected: doRpcPayload throws.
JoinReject ==
    /\ pc = "join"
    /\ \E k \in 1..N : promises[k].settle = "rejected"
    /\ pc' = "rejected"
    /\ UNCHANGED << helperVars, payload, params, index, hasReply, statusCode, i, promises, invoked, outcomes, response >>

\* doRpcPayload, `return await doRpcMethod(payload, clientInfo, reply)`
SingleCall ==
    /\ pc = "start"
    /\ ~payload.isArray
    /\ CallMethod(1)
    /\ pc' = "single"
    /\ UNCHANGED << helperVars, payload, params, index, hasReply, i, response >>

SingleReturn ==
    /\ pc = "single"
    /\ promises[1].settle = "fulfilled"
    /\ pc' = "returned"
    /\ response' = [ kind |-> "single", items |-> << promises[1].envelope >> ]
    /\ UNCHANGED << helperVars, payload, params, index, hasReply, statusCode, i, promises, invoked, outcomes >>

SingleReject ==
    /\ pc = "single"
    /\ promises[1].settle = "rejected"
    /\ pc' = "rejected"
    /\ UNCHANGED << helperVars, payload, params, index, hasReply, statusCode, i, promises, invoked, outcomes, response >>

Next ==
    \/ BatchEmpty
    \/ BatchStart
    \/ Dispatch
    \/ \E k \in 1..MaxBatch : HandlerComplete(k)
    \/ JoinResolve
    \/ JoinReject
    \/ SingleCall
    \/ SingleReturn
    \/ SingleReject

Spec == Init /\ [][Next]_vars

\* The event loop runs every continuation that is ready: a settled promise
\* always resumes the function awaiting it.  Handlers themselves are under
\* no fairness: an external dependency may never answer.
FairSpec ==
    /\ Spec
    /\ WF_vars(BatchEmpty) /\ WF_vars(BatchStart) /\ WF_vars(Dispatch)
    /\ WF_vars(JoinResolve) /\ WF_vars(JoinReject)
    /\ WF_vars(SingleCall) /\ WF_vars(SingleReturn) /\ WF_vars(SingleReject)

\* One eth_getLogs request, sent alone, against some contents of the index.
GetLogsRequests ==
    { [ isArray |-> FALSE,
        entries |-> << [ isNull |-> FALSE, jsonrpc |-> "2.0", id |-> id,
                         method |-> "eth_getLogs" ] >> ] : id \in { 1 } }

InitLogs ==
    /\ payload \in GetLogsRequests
    /\ params \in FilterObjects \cup { NoParams }
    /\ index \in Indexes
    /\ hasReply = TRUE
    /\ statusCode = 200
    /\ pc = "start"
    /\ i = 1
    /\ promises = << >>
    /\ invoked = {}
    /\ outcomes = << >>
    /\ response = NoResponse
    /\ HelpersIdle

NextLogs ==
    \/ SingleCall
    \/ HandlerComplete(1)
    \/ SingleReturn

SpecLogs == InitLogs /\ [][NextLogs]_vars

TypeOK ==
    /\ payload \in Payloads \cup GetLogsRequests
    /\ hasReply \in BOOLEAN
    /\ statusCode \in { 200, 400, 404, 500 }
    /\ pc \in { "start", "loop", "join", "single", "returned", "rejected" }
    /\ i \in 1..(MaxBatch + 1)
    /\ Len(promises) <= N
    /\ invoked \subseteq 1..N
    /\ Len(outcomes) = Len(promises)

\* ------------------------------------------------ helper predicates ----
Terminated == pc \in { "returned", "rejected" }

Dispatched(k) == k \in 1..Len(promises)

IsRequest(k) == ~payload.entries[k].isNull

AllRequests == \A k \in 1..N : IsRequest(k)

\* The handler of entry k has completed with outcome type t.
Raised(k, t) == Dispatched(k) /\ outcomes[k].type = t

\* Every handler that was started has completed.
AllHandlersCompleted ==
    /\ Len(promises) = N
    /\ \A k \in 1..N : promises[k].settle # "pending"

ValidVersion(k) == payload.entries[k].jsonrpc \in { "undefined", "2.0" }

UnknownMethod(k) == payload.entries[k].method \notin RegisteredMethods

\* ------------------------------------------------------------ claims ----

\* C1: for an array payload of n >= 1 requests doRpcPayload ends by
\* returning an array of exactly n envelopes, the k-th one carrying the id
\* of the k-th request; for an empty array it returns no value.
C1_BatchOrderAndCardinality ==
    (payload.isArray /\ AllRequests /\ Terminated) =>
        IF N = 0
        THEN response.kind = "undefined"
        ELSE /\ pc = "returned"
             /\ response.kind = "array"
             /\ Len(response.items) = N
             /\ \A k \in 1..N : response.items[k].id = payload.entries[k].id

\* C2: in a batch, once doRpcPayload has ended and some entry has failed
\* (handler exception, unknown method, mismatched version, null entry),
\* the batch response still holds one envelope per entry, an error
\* envelope for each failed one.
EntryFailed(k) ==
    /\ Dispatched(k)
    /\ \/ promises[k].settle = "rejected"
       \/ promises[k].settle = "fulfilled" /\ promises[k].envelope.hasError

C2_FailureIsolation ==
    (payload.isArray /\ Terminated /\ \E k \in 1..N : EntryFailed(k)) =>
        /\ response.kind = "array"
        /\ Len(response.items) = N
        /\ \A k \in 1..N : EntryFailed(k) =>
              /\ response.items[k].hasError
              /\ ~response.items[k].hasResult

\* C3: whatever the handler produces, doRpcMethod called on a request
\* never raises, and the envelope it returns has jsonrpc "2.0", the
\* request's id and exactly one of result and error.
C3_AlwaysAnEnvelope ==
    \A k \in 1..Len(promises) : IsRequest(k) =>
        /\ promises[k].settle # "rejected"
        /\ promises[k].settle = "fulfilled" =>
              /\ promises[k].envelope.jsonrpc = "2.0"
              /\ promises[k].envelope.id = payload.entries[k].id
              /\ promises[k].envelope.hasResult # promises[k].envelope.hasError

\* C4: a batch response is returned only once no handler is still running,
\* and a batch of requests whose handlers have all completed does not end
\* without its batch response (doRpcPayload ends by returning it).
C4_JoinWaitsForAll ==
    (payload.isArray /\ N >= 1 /\ AllRequests) =>
        /\ pc = "returned" => AllHandlersCompleted
        /\ (AllHandlersCompleted /\ Terminated) => pc = "returned"

\* C5: a request with a valid version and a method that is not registered
\* gets an error envelope with code -32601 and its id, and its handler is
\* not invoked; in a returned batch the envelope of such an entry sits at
\* the entry's position, and an entry whose handler returned a result has
\* its success envelope at its own position.
C5_MethodNotFound ==
    /\ \A k \in 1..Len(promises) :
          (IsRequest(k) /\ ValidVersion(k) /\ UnknownMethod(k)) =>
              /\ promises[k].settle = "fulfilled"
              /\ promises[k].envelope.hasError
              /\ ~promises[k].envelope.hasResult
              /\ promises[k].envelope.code = -32601
              /\ promises[k].envelope.id = payload.entries[k].id
              /\ k \notin invoked
              /\ outcomes[k].type = "none"
    /\ (payload.isArray /\ pc = "returned") =>
          \A k \in 1..N :
              /\ (ValidVersion(k) /\ UnknownMethod(k)) =>
                    /\ response.items[k].code = -32601
                    /\ response.items[k].hasError
                    /\ response.items[k].id = payload.entries[k].id
              /\ Raised(k, "result") =>
                    /\ response.items[k].hasResult
                    /\ response.items[k].result = outcomes[k].result
                    /\ response.items[k].id = payload.entries[k].id

C5_Witness ==
    /\ payload.isArray /\ N = 2 /\ pc = "returned"
    /\ payload.entries[1].method = "eth_chainId" /\ payload.entries[1].id = 1
    /\ payload.entries[2].method = "bogus" /\ payload.entries[2].id = 2
    /\ ValidVersion(1) /\ ValidVersion(2)
    /\ response.items[1].hasResult
    /\ response.items[2].code = -32601

\* C6: a request without a jsonrpc field is dispatched as version "2.0"
\* (its handler is invoked iff its method is registered); a request with
\* an explicit jsonrpc other than "2.0" gets an InvalidRequest envelope
\* (code -32600) and its handler is never invoked.
C6_VersionCheck ==
    \A k \in 1..Len(promises) : IsRequest(k) =>
        /\ payload.entries[k].jsonrpc = "undefined" =>
              (k \in invoked <=> ~UnknownMethod(k))
        /\ payload.entries[k].jsonrpc \notin { "undefined", "2.0" } =>
              /\ k \notin invoked
              /\ promises[k].settle = "fulfilled"
              /\ promises[k].envelope.hasError
              /\ promises[k].envelope.code = -32600

\* C7 as stated: an exception that is neither a TransactionError nor a
\* ledger assertion failure yields code -32603 and the raw message.
C7_OtherExceptionInternalError ==
    \A k \in 1..Len(promises) : Raised(k, "other") =>
        /\ promises[k].settle = "fulfilled"
        /\ promises[k].envelope.hasError
        /\ promises[k].envelope.code = -32603
        /\ promises[k].envelope.message = outcomes[k].text

\* C7 as amended: such an exception yields code 3 and the raw message.
C7_OtherExceptionCode3 ==
    \A k \in 1..Len(promises) : Raised(k, "other") =>
        /\ promises[k].settle = "fulfilled"
        /\ promises[k].envelope.hasError
        /\ ~promises[k].envelope.hasResult
        /\ promises[k].envelope.code = 3
        /\ promises[k].envelope.message = outcomes[k].text

C7_Witness ==
    \E k \in 1..Len(promises) :
        /\ Raised(k, "other")
        /\ outcomes[k].text = MsgBoom
        /\ promises[k].envelope.message = MsgBoom

\* C8: a TransactionError yields an error envelope with the error's own
\* code, or 3 when it sets none, its errorMessage and its data unchanged.
C8_TransactionErrorEnvelope ==
    \A k \in 1..Len(promises) : Raised(k, "TransactionError") =>
        /\ promises[k].settle = "fulfilled"
        /\ promises[k].envelope.hasError
        /\ ~promises[k].envelope.hasResult
        /\ promises[k].envelope.code =
              (IF outcomes[k].hasCode THEN outcomes[k].code ELSE 3)
        /\ promises[k].envelope.message = outcomes[k].text
        /\ promises[k].envelope.data = outcomes[k].data

C8_Witness ==
    \E j, k \in 1..Len(promises) :
        /\ Raised(j, "TransactionError") /\ outcomes[j].hasCode
        /\ promises[j].envelope.code = -32000
        /\ Raised(k, "TransactionError") /\ ~outcomes[k].hasCode
        /\ promises[k].envelope.code = 3
        /\ promises[k].envelope.data = "0x08c379a0"

\* C9: the completion of a handler, with a result or with any exception,
\* never changes reply.statusCode, for a single request and for a batch
\* entry alike; the status differs from 200 only when some dispatched
\* entry had an envelope-level error (mismatched version, unknown method).
HandlerCompletes ==
    \E k \in 1..Len(promises) :
        /\ promises[k].settle = "pending"
        /\ promises'[k].settle # "pending"

EnvelopeLevelError(k) ==
    /\ Dispatched(k)
    /\ IsRequest(k)
    /\ \/ NormalizedVersion(payload.entries[k].jsonrpc) # "2.0"
       \/ UnknownMethod(k)

BlockHashWithRange ==
    /\ params.defined
    /\ params.blockHash # Undef
    /\ (params.fromBlock # "undefined" \/ params.toBlock # "undefined")

C10_BlockHashWithRangeFails ==
    (BlockHashWithRange /\ Dispatched(1) /\ outcomes[1].type # "none") =>
        /\ promises[1].settle = "fulfilled"
        /\ promises[1].envelope.hasError
        /\ ~promises[1].envelope.hasResult
        /\ promises[1].envelope.message = MsgBlockHashWithRange

\* ------------------------------------------------------ hex numbers ----
HexDigit(d) ==
    CASE d = 0 -> "0" [] d = 1 -> "1" [] d = 2 -> "2" [] d = 3 -> "3"
      [] d = 4 -> "4" [] d = 5 -> "5" [] d = 6 -> "6" [] d = 7 -> "7"
      [] d = 8 -> "8" [] d = 9 -> "9" [] d = 10 -> "a" [] d = 11 -> "b"
      [] d = 12 -> "c" [] d = 13 -> "d" [] d = 14 -> "e" [] d = 15 -> "f"

HexValue(c) ==
    CASE c = "0" -> 0 [] c = "1" -> 1 [] c = "2" -> 2 [] c = "3" -> 3
      [] c = "4" -> 4 [] c = "5" -> 5 [] c = "6" -> 6 [] c = "7" -> 7
      [] c = "8" -> 8 [] c = "9" -> 9 [] c = "a" -> 10 [] c = "b" -> 11
      [] c = "c" -> 12 [] c = "d" -> 13 [] c = "e" -> 14 [] c = "f" -> 15

\* Number.prototype.toString(16)
RECURSIVE ToString16(_)
ToString16(n) ==
    IF n < 0 THEN << "-" >> \o ToString16(-n)
    ELSE IF n < 16 THEN << HexDigit(n) >>
    ELSE ToString16(n \div 16) \o << HexDigit(n % 16) >>

\* parseInt(s, 16) of a string of hex digits, with or without the 0x prefix
RECURSIVE ParseHexDigits(_)
ParseHexDigits(s) ==
    IF s = << >> THEN 0
    ELSE 16 * ParseHexDigits(SubSeq(s, 1, Len(s) - 1)) + HexValue(s[Len(s)])

parseInt16(s) == ParseHexDigits(Strip0x(s))

\* String.prototype.padStart(n, c)
PadStart(s, n, c) == IF Len(s) >= n THEN s ELSE [ k \in 1..(n - Len(s)) |-> c ] \o s

\* numToHex(input) for a number
numToHex(input) == << "0", "x" >> \o ToString16(input)

\* The keccak256 digest of a string, as an injective tagging of its input.
Keccak256(s) == << "keccak256:" >> \o s

\* blockHexToHash(blockHex)
blockHexToHash(blockHex) == << "0", "x" >> \o Keccak256(Strip0x(blockHex))

\* getParentBlockHash(blockNumberHex)
getParentBlockHash(blockNumberHex) ==
    blockHexToHash(ToString16(parseInt16(blockNumberHex) - 1))

\* ------------------------------------------------------------ blooms ----
\* A bloom filter is a vector of BloomBits bits, kept as the set of the
\* positions that are set; in a receipt it is stored as a string of the
\* bits.
BloomBits == 3

\* bloom.bitvector.toString("hex")
BloomToString(bits) == [ k \in 1..BloomBits |-> IF (k - 1) \in bits THEN "1" ELSE "0" ]

\* new Bloom(Buffer.from(s, "hex"))
BloomFromString(s) == { k - 1 : k \in { j \in 1..Len(s) : s[j] = "1" } }

\* new Bloom()
EmptyBloom == {}

\* bloom.or(other)
BloomOr(bloom, other) == bloom \cup other

\* ---------------------------------------------------------- receipts ----
MaxReceipts == 2

\* A signature string of the ledger, by the components Signature.fromString
\* recovers from it; what getSignature can return besides one: undefined
\* (no hit) and null (the search failed).
SigString(ii, rr, ss) == [ kind |-> "string", i |-> ii, r |-> rr, s |-> ss ]
SigUndefined == [ kind |-> "undefined", i |-> 0, r |-> 0, s |-> 0 ]
SigNull == [ kind |-> "null", i |-> 0, r |-> 0, s |-> 0 ]

SigA == SigString(27, 5, 6)
SigB == SigString(28, 9, 10)

\* The signature the first action of a ledger transaction carries.
SignatureOfTrx(trx_id) == IF trx_id = 1 THEN SigA ELSE SigB

\* The receipts of block 1 the index may hold: receiptDoc._source, with
\* the members of '@raw' the block reconstruction reads.
Rcpt1 ==
    [ trx_id |-> 1, signatures |-> << SigA >>, timestamp |-> 7,
      raw |-> [ hash |-> << "t", "1" >>, block |-> 1, block_hash |-> HashB1,
                gasusedblock |-> 1, gas_limit |-> 5, logsBloom |-> BloomToString({ 0 }),
                v |-> Undef, r |-> Undef, s |-> Undef, trx_index |-> 0 ] ]

Rcpt2 ==
    [ trx_id |-> 2, signatures |-> << >>, timestamp |-> 7,
      raw |-> [ hash |-> << "t", "2" >>, block |-> 1, block_hash |-> HashB1,
                gasusedblock |-> 3, gas_limit |-> 5, logsBloom |-> Undef,
                v |-> Undef, r |-> Undef, s |-> Undef, trx_index |-> 1 ] ]

Rcpt3 ==
    [ trx_id |-> 3, signatures |-> << >>, timestamp |-> 7,
      raw |-> [ hash |-> << "t", "3" >>, block |-> 1, block_hash |-> HashB1,
                gasusedblock |-> 2, gas_limit |-> 5, logsBloom |-> BloomToString({ 1 }),
                v |-> << "1", "c" >>, r |-> << "0", "a" >>, s |-> << "0", "b" >>,
                trx_index |-> 2 ] ]

Rcpt4 ==
    [ trx_id |-> 4, signatures |-> << SigB >>, timestamp |-> 7,
      raw |-> [ hash |-> << "t", "4" >>, block |-> 1, block_hash |-> HashB1,
                gasusedblock |-> 4, gas_limit |-> 5, logsBloom |-> << >>,
                v |-> << "1", "b" >>, r |-> << "0", "c" >>, s |-> << "0", "d" >>,
                trx_index |-> 3 ] ]

BlockOneReceipts == { Rcpt1, Rcpt2, Rcpt3, Rcpt4 }

\* The hits of one search: the receipts of the block the index holds, in
\* the order the backend gives them (the search names no sort).
ReceiptLists ==
    { l \in SeqsUpTo(BlockOneReceipts, MaxReceipts) :
        \A a, b \in 1..Len(l) : a # b => l[a] # l[b] }

\* The delta index: one record per ledger block.
Delta(block_num, evmBlockHash, timestamp) ==
    [ block_num |-> block_num, evmBlockHash |-> evmBlockHash, timestamp |-> timestamp ]

DeltaIndexes == { {}, { Delta(1, HashB1, 7), Delta(2, HashB2, 9) } }

\* Which ledger transactions the action index can answer getSignature for.
SignatureIndexes == { {}, { 2, 3 } }

\* ------------------------------------------------------------ getVRS ----
\* What `await getSignature(trx_id)` can give: signatures[0] of the hit,
\* undefined when nothing is indexed under the id, null when the search
\* (or the member access on its hit) throws.
SignatureLookups(trx_id) ==
    (IF trx_id \in signatures THEN { SignatureOfTrx(trx_id) } ELSE { SigUndefined })
    \cup { SigNull }

NoVRS == [ threw |-> TRUE, v |-> Undef, r |-> Undef, s |-> Undef ]

\* getVRS(receiptDoc) if a missing signature were read as the zero signature
getVRS_MissingSignatureAsZero(receiptDoc, lookup) ==
    LET sigString == IF Len(receiptDoc.signatures) > 0
                     THEN receiptDoc.signatures[1]
                     ELSE lookup
    IN  IF receiptDoc.raw.v = Undef
        THEN [ threw |-> FALSE,
               v |-> << "0", "x" >> \o PadStart(ToString16(sigString.i), 64, "0"),
               r |-> << "0", "x" >> \o PadStart(ToString16(sigString.r), 64, "0"),
               s |-> << "0", "x" >> \o ToString16(sigString.s) ]
        ELSE [ threw |-> FALSE,
               v |-> << "0", "x" >> \o receiptDoc.raw.v,
               r |-> << "0", "x" >> \o receiptDoc.raw.r,
               s |-> << "0", "x" >> \o receiptDoc.raw.s ]

\* getVRS(receiptDoc); lookup is what getSignature answers when it is asked.
\* Signature.fromString throws on anything but a signature string.
getVRS(receiptDoc, lookup) ==
    LET sigString == IF Len(receiptDoc.signatures) > 0
                     THEN receiptDoc.signatures[1]
                     ELSE lookup
    IN  IF receiptDoc.raw.v = Undef
        THEN IF sigString.kind # "string"
             THEN NoVRS
             ELSE [ threw |-> FALSE,
                    v |-> << "0", "x" >> \o PadStart(ToString16(sigString.i), 64, "0"),
                    r |-> << "0", "x" >> \o PadStart(ToString16(sigString.r), 64, "0"),
                    s |-> << "0", "x" >> \o ToString16(sigString.s) ]
        ELSE [ threw |-> FALSE,
               v |-> << "0", "x" >> \o receiptDoc.raw.v,
               r |-> << "0", "x" >> \o receiptDoc.raw.r,
               s |-> << "0", "x" >> \o receiptDoc.raw.s ]

\* ---------------------------------------------- the blocks returned ----
\* The members a block query sets; the members of BLOCK_TEMPLATE are the
\* same constants in every block.
Block(gasUsed, parentHash, hash, logsBloom, number, timestamp, transactions) ==
    [ gasUsed |-> gasUsed, parentHash |-> parentHash, hash |-> hash,
      logsBloom |-> logsBloom, number |-> number, timestamp |-> timestamp,
      transactions |-> transactions ]

NoBlock == Block(Undef, Undef, Undef, Undef, Undef, Undef, << >>)

\* What a search of the delta index can give: an exception, no hit, or a
\* record under the term.
NoDelta == Delta(0, Undef, 0)

DeltaSearches(found) ==
    { [ threw |-> TRUE, hit |-> FALSE, blockDelta |-> NoDelta ] }
    \cup (IF found = {}
          THEN { [ threw |-> FALSE, hit |-> FALSE, blockDelta |-> NoDelta ] }
          ELSE { [ threw |-> FALSE, hit |-> TRUE, blockDelta |-> d ] : d \in found })

\* emptyBlockFromNumber(blockNumber) if a block missing from the delta
\* index were answered with null, as emptyBlockFromHash does
emptyBlockFromNumber_NullWhenMissing(blockNumber, search) ==
    IF search.threw \/ ~search.hit
    THEN [ kind |-> "null", block |-> NoBlock ]
    ELSE LET blockNumberHex == << "0", "x" >> \o ToString16(blockNumber)
         IN  [ kind |-> "block",
               block |-> Block(<< "0", "x", "0" >>, getParentBlockHash(blockNumberHex),
                               << "0", "x" >> \o search.blockDelta.evmBlockHash,
                               << "0", "x" >> \o BloomToString(EmptyBloom),
                               blockNumberHex,
                               << "0", "x" >> \o ToString16(search.blockDelta.timestamp),
                               << >>) ]

\* emptyBlockFromNumber(blockNumber): what it returns, null included
emptyBlockFromNumber(blockNumber, search) ==
    IF search.threw
    THEN [ kind |-> "null", block |-> NoBlock ]
    ELSE LET blockNumberHex == << "0", "x" >> \o ToString16(blockNumber)
             timestamp == IF search.hit THEN search.blockDelta.timestamp ELSE 0
             blockHash == IF search.hit
                          THEN << "0", "x" >> \o search.blockDelta.evmBlockHash
                          ELSE blockHexToHash(blockNumberHex)
         IN  [ kind |-> "block",
               block |-> Block(<< "0", "x", "0" >>, getParentBlockHash(blockNumberHex),
                               blockHash, << "0", "x" >> \o BloomToString(EmptyBloom),
                               blockNumberHex, << "0", "x" >> \o ToString16(timestamp),
                               << >>) ]

\* emptyBlockFromHash(blockHash): what it returns, null included
emptyBlockFromHash(blockHash, search) ==
    IF search.threw \/ ~search.hit
    THEN [ kind |-> "null", block |-> NoBlock ]
    ELSE LET blockDelta == search.blockDelta
             blockNumberHex == << "0", "x" >> \o ToString16(blockDelta.block_num)
         IN  [ kind |-> "block",
               block |-> Block(<< "0", "x", "0" >>, getParentBlockHash(blockNumberHex),
                               << "0", "x" >> \o blockDelta.evmBlockHash,
                               << "0", "x" >> \o BloomToString(EmptyBloom),
                               blockNumberHex,
                               << "0", "x" >> \o ToString16(blockDelta.timestamp),
                               << >>) ]

\* -------------------------------------- reconstructBlockFromReceipts ----
\* The locals of one run before its first receipt; timestamp -1 is the
\* unassigned local.  searchFailed records that the run's search of the
\* delta index threw.
InitialRun ==
    [ state |-> "running", pos |-> 1, gasLimit |-> 0, gasUsedBlock |-> 0,
      blockHash |-> Undef, blockHex |-> Undef, timestamp |-> -1,
      bloom |-> EmptyBloom, trxs |-> << >>, searchFailed |-> FALSE,
      kind |-> "pending", block |-> NoBlock ]

\* `if (trxGasUsedBlock > gasUsedBlock) gasUsedBlock = trxGasUsedBlock`
GasUsedAfter_Sum(gasUsedBlock, trxGasUsedBlock) == gasUsedBlock + trxGasUsedBlock

GasUsedAfter(gasUsedBlock, trxGasUsedBlock) ==
    IF trxGasUsedBlock > gasUsedBlock THEN trxGasUsedBlock ELSE gasUsedBlock

\* `if (receipt['logsBloom']) bloom.or(new Bloom(...))`
BloomAfter(bloom, logsBloom) ==
    IF TruthyString(logsBloom) THEN BloomOr(bloom, BloomFromString(logsBloom)) ELSE bloom

\* What the loop pushes for one receipt: the hash, or the transaction
\* object (its members that vary with the receipt, the run and the lookup).
TransactionEntry(receipt, full, blockHash, blockHex, vrs) ==
    IF ~full
    THEN [ summary |-> TRUE, hash |-> receipt.hash, blockHash |-> Undef,
           blockNumber |-> Undef, transactionIndex |-> Undef,
           v |-> Undef, r |-> Undef, s |-> Undef ]
    ELSE [ summary |-> FALSE, hash |-> receipt.hash, blockHash |-> blockHash,
           blockNumber |-> blockHex,
           transactionIndex |-> << "0", "x" >> \o ToString16(receipt.trx_index),
           v |-> vrs.v, r |-> vrs.r, s |-> vrs.s ]

\* One iteration of the loop over the receipts, from a run's locals.
ReconstructIteration(st, receiptDoc, full, lookup) ==
    LET vrs == getVRS(receiptDoc, lookup)
        receipt == receiptDoc.raw
        blockHash == IF ~TruthyString(st.blockHash)
                     THEN << "0", "x" >> \o receipt.block_hash
                     ELSE st.blockHash
        blockHex == IF ~TruthyString(st.blockHex)
                    THEN << "0", "x" >> \o ToString16(receipt.block)
                    ELSE st.blockHex
    IN  IF vrs.threw
        THEN [ st EXCEPT !.state = "threw", !.kind = "threw" ]
        ELSE [ st EXCEPT
                 !.pos = @ + 1,
                 !.gasLimit = @ + receipt.gas_limit,
                 !.gasUsedBlock = GasUsedAfter(@, receipt.gasusedblock),
                 !.blockHash = blockHash,
                 !.blockHex = blockHex,
                 !.timestamp = IF @ <= 0 THEN receiptDoc.timestamp ELSE @,
                 !.bloom = BloomAfter(@, receipt.logsBloom),
                 !.trxs = Append(@, TransactionEntry(receipt, full, blockHash, blockHex, vrs)) ]

\* The block the function returns after the loop.
ReconstructedBlock(st) ==
    Block(numToHex(st.gasUsedBlock), getParentBlockHash(st.blockHex), st.blockHash,
          << "0", "x" >> \o BloomToString(st.bloom), st.blockHex,
          << "0", "x" >> \o ToString16(st.timestamp), st.trxs)

\* ------------------------------------------------- the block queries ----
\* eth_getBlockByNumber([block, full]) and eth_getBlockByHash([hash, full]),
\* each run twice on the same hits.
BlockQueries ==
    [ by : { "number" }, number : { 1, 2, 3 }, hash : { << >> }, full : BOOLEAN ]
    \cup [ by : { "hash" }, number : { 0 },
           hash : { << "0", "x", "B", "1" >>, << "0", "x", "b", "2" >>, << "b", "9" >> },
           full : BOOLEAN ]

\* eth_getBlockByHash, `_hash`
NormalizedHash(hash) == Strip0x(ToLowerCase(hash))

\* The hits getReceiptsByTerm can return for a query.
ReceiptListsOf(q) ==
    IF (q.by = "number" /\ q.number = 1) \/ (q.by = "hash" /\ NormalizedHash(q.hash) = HashB1)
    THEN ReceiptLists
    ELSE { << >> }

Runs == { 1, 2 }

InitBlock ==
    /\ query \in BlockQueries
    /\ receipts \in ReceiptListsOf(query)
    /\ signatures \in SignatureIndexes
    /\ deltas \in DeltaIndexes
    /\ run = [ r \in Runs |-> InitialRun ]
    /\ RpcIdle
    /\ HandlersIdle
    /\ TopicsIdle
    /\ DecodersIdle
    /\ CacheIdle

\* reconstructBlockFromReceipts, one receipt: `await getVRS(...)` and the
\* rest of the loop body
ReconstructStep(r) ==
    /\ Len(receipts) > 0
    /\ run[r].state = "running"
    /\ run[r].pos <= Len(receipts)
    /\ \E lookup \in SignatureLookups(receipts[run[r].pos].trx_id) :
          run' = [ run EXCEPT ![r] =
                     ReconstructIteration(@, receipts[run[r].pos], query.full, lookup) ]
    /\ UNCHANGED << rpcVars, handlerVars, topicVars, decoderVars, cacheVars, query, receipts, signatures, deltas >>

\* reconstructBlockFromReceipts, after the loop
ReconstructReturn(r) ==
    /\ Len(receipts) > 0
    /\ run[r].state = "running"
    /\ run[r].pos > Len(receipts)
    /\ run' = [ run EXCEPT ![r].state = "returned", ![r].kind = "block",
                           ![r].block = ReconstructedBlock(run[r]) ]
    /\ UNCHANGED << rpcVars, handlerVars, topicVars, decoderVars, cacheVars, query, receipts, signatures, deltas >>

\* `receipts.length > 0 ? ... : await emptyBlockFromNumber(blockNumber)` and
\* `... : await emptyBlockFromHash(_hash)`
EmptyBlock(r) ==
    /\ Len(receipts) = 0
    /\ run[r].state = "running"
    /\ LET found == IF query.by = "number"
                    THEN { d \in deltas : d.block_num = query.number }
                    ELSE { d \in deltas : d.evmBlockHash = NormalizedHash(query.hash) }
       IN  \E search \in DeltaSearches(found) :
              LET answer == IF query.by = "number"
                            THEN emptyBlockFromNumber(query.number, search)
                            ELSE emptyBlockFromHash(NormalizedHash(query.hash), search)
              IN  run' = [ run EXCEPT ![r].state = "returned", ![r].kind = answer.kind,
                                      ![r].searchFailed = search.threw,
                                      ![r].block = answer.block ]
    /\ UNCHANGED << rpcVars, handlerVars, topicVars, decoderVars, cacheVars, query, receipts, signatures, deltas >>

NextBlock ==
    \E r \in Runs : ReconstructStep(r) \/ ReconstructReturn(r) \/ EmptyBlock(r)

SpecBlock == InitBlock /\ [][NextBlock]_vars

\* ------------------------------------------------------------- C11 ----
Returned(r) == run[r].state = "returned" /\ run[r].kind = "block"

Reconstructed(r) == Len(receipts) > 0 /\ Returned(r)

CumulativeGas == { receipts[k].raw.gasusedblock : k \in 1..Len(receipts) }

ReceiptBlooms ==
    { BloomFromString(receipts[k].raw.logsBloom) :
        k \in { j \in 1..Len(receipts) : TruthyString(receipts[j].raw.logsBloom) } }

\* C11: for every non-empty list of receipts of one block, the reconstructed
\* block's gasUsed is the maximum (not the sum) of the receipts' cumulative
\* gas-used-at-block values, and its logsBloom is the bitwise OR of the blooms
\* of the receipts that have one; a receipt without a bloom adds nothing.
C11_GasUsedMaxBloomOr ==
    \A r \in DOMAIN run :
        Reconstructed(r) =>
            /\ \E g \in CumulativeGas :
                  /\ \A o \in CumulativeGas : o <= g
                  /\ run[r].block.gasUsed = << "0", "x" >> \o ToString16(g)
            /\ run[r].block.logsBloom = << "0", "x" >> \o BloomToString(UNION ReceiptBlooms)

\* Two receipts, the larger cumulative gas first, one of them without a bloom.
C11_Witness ==
    \E r \in DOMAIN run :
        /\ Reconstructed(r)
        /\ Len(receipts) = 2
        /\ receipts[1].raw.gasusedblock > receipts[2].raw.gasusedblock
        /\ ~TruthyString(receipts[1].raw.logsBloom)
        /\ TruthyString(receipts[2].raw.logsBloom)
        /\ run[r].block.logsBloom # << "0", "x" >> \o BloomToString(EmptyBloom)

\* ------------------------------------------------------------- C12 ----
\* C12: block reconstruction is deterministic: two runs on the same receipt
\* list and the same mode that both return a block return identical blocks,
\* in summary mode and in full-transaction mode, whatever each run's
\* secondary signature lookups answer.
C12_ReconstructionDeterministic ==
    (Reconstructed(1) /\ Reconstructed(2)) => run[1].block = run[2].block

\* Both runs returned in full-transaction mode on a list holding a receipt
\* whose signature came from the secondary lookup.
C12_Witness ==
    /\ query.full
    /\ Reconstructed(1) /\ Reconstructed(2)
    /\ \E k \in 1..Len(receipts) :
          /\ Len(receipts[k].signatures) = 0
          /\ receipts[k].raw.v = Undef
          /\ run[1].block.transactions[k].v # Undef

\* ------------------------------------------------------------- C13 ----
\* The records of the delta index under the key of the query.
DeltasOfQuery ==
    IF query.by = "number"
    THEN { d \in deltas : d.block_num = query.number }
    ELSE { d \in deltas : d.evmBlockHash = NormalizedHash(query.hash) }

\* A run that found no receipt, searched the delta index and got an answer.
Consulted(r) == Len(receipts) = 0 /\ run[r].state = "returned" /\ ~run[r].searchFailed

ZeroTransactionBlockOf(r, d) ==
    /\ run[r].kind = "block"
    /\ run[r].block.transactions = << >>
    /\ run[r].block.timestamp = << "0", "x" >> \o ToString16(d.timestamp)
    /\ run[r].block.hash = << "0", "x" >> \o d.evmBlockHash

PseudoHashBlockOf(r) ==
    /\ run[r].kind = "block"
    /\ run[r].block.transactions = << >>
    /\ query.by = "number"
    /\ run[r].block.hash = << "0", "x" >> \o Keccak256(ToString16(query.number))

\* C13 as claimed: when no receipt matches the requested block, by number
\* or by hash, the query consults the ledger-state index: a record found
\* gives a zero-transaction block with the record's timestamp and hash; none
\* found still gives a zero-transaction block, whose hash is the
\* pseudo-hash of the block number.
C13_EmptyBlockFallback ==
    \A r \in DOMAIN run :
        Consulted(r) =>
            IF DeltasOfQuery # {}
            THEN \E d \in DeltasOfQuery : ZeroTransactionBlockOf(r, d)
            ELSE PseudoHashBlockOf(r)

\* C13 as amended: by number as claimed; by hash a record found gives the
\* zero-transaction block and none found gives null; a search that throws
\* gives null in both queries.
C13_EmptyBlockFallbackByNumberOnly ==
    \A r \in DOMAIN run :
        (Len(receipts) = 0 /\ run[r].state = "returned") =>
            IF run[r].searchFailed THEN run[r].kind = "null"
            ELSE IF DeltasOfQuery # {}
            THEN \E d \in DeltasOfQuery : ZeroTransactionBlockOf(r, d)
            ELSE IF query.by = "number" THEN PseudoHashBlockOf(r)
            ELSE run[r].kind = "null"

\* A query by number for a block that neither index knows got the
\* pseudo-hash block.
C13_Witness ==
    \E r \in DOMAIN run :
        /\ Consulted(r)
        /\ query.by = "number"
        /\ DeltasOfQuery = {}
        /\ deltas # {}
        /\ PseudoHashBlockOf(r)

\* --------------------------------------------------------- hasTopics ----
MaxTopics == 2

\* The topics a log may carry and a filter may name.
LogTopicStrings ==
    { << "0", "x", "1", "1" >>, << "0", "x", "0", "0", "1", "1" >>,
      << "0", "x", "1", "1", "2", "2" >>, << "0", "x", "2", "2" >>,
      << "0", "x", "0", "0" >> }

FilterPositions ==
    { TopicNull,
      TopicString(<< "0", "x", "1", "1" >>),
      TopicString(<< "0", "x", "0", "0", "1", "1", "2", "2" >>),
      TopicString(<< "0", "x", "2", "2" >>),
      TopicArray(<< << "0", "x", "1", "1" >>, << "0", "x", "2", "2" >> >>) }

InitTopics ==
    /\ logTopics \in SeqsUpTo(LogTopicStrings, MaxTopics)
    /\ topicsFilter \in SeqsUpTo(FilterPositions, MaxTopics)
    /\ accepted = "pending"
    /\ RpcIdle
    /\ HandlersIdle
    /\ BlockIdle
    /\ DecodersIdle
    /\ CacheIdle

\* hasTopics(topics, topicsFilter)
ApplyHasTopics ==
    /\ accepted = "pending"
    /\ accepted' = IF hasTopics(logTopics, topicsFilter) THEN "true" ELSE "false"
    /\ UNCHANGED << rpcVars, handlerVars, blockVars, decoderVars, cacheVars, logTopics, topicsFilter >>

NextTopics == ApplyHasTopics

SpecTopics == InitTopics /\ [][NextTopics]_vars

\* ------------------------------------------------------------- C14 ----
\* The filters the claim is about: every position null or one topic.
SingleTopicFilter ==
    \A p \in 1..Len(topicsFilter) : topicsFilter[p].kind \in { "null", "string" }

Stripped(t) == removeZeroHexFromFilter(t, TRUE)

\* C14 as claimed: a positional topic filter accepts a log iff at every
\* filter position the entry is null, or the log's topic at that position,
\* after zero-stripping of both, equals the filter topic or contains it.
C14_LogTopicContainsFilterTopic ==
    (accepted \in { "true", "false" } /\ SingleTopicFilter) =>
        (accepted = "true" <=>
            \A p \in 1..Len(topicsFilter) :
                \/ topicsFilter[p].kind = "null"
                \/ /\ p <= Len(logTopics)
                   /\ \/ Stripped(logTopics[p]) = Stripped(topicsFilter[p].items[1])
                      \/ Includes(Stripped(logTopics[p]), Stripped(topicsFilter[p].items[1])))

\* C14 as amended: the containment runs the other way, the filter topic
\* equals the log's topic at that position or contains it.
C14_FilterTopicContainsLogTopic ==
    (accepted \in { "true", "false" } /\ SingleTopicFilter) =>
        (accepted = "true" <=>
            \A p \in 1..Len(topicsFilter) :
                \/ topicsFilter[p].kind = "null"
                \/ /\ p <= Len(logTopics)
                   /\ \/ Stripped(topicsFilter[p].items[1]) = Stripped(logTopics[p])
                      \/ Includes(Stripped(topicsFilter[p].items[1]), Stripped(logTopics[p])))

\* The filter [null, T] accepted a log whose second topic is a proper part
\* of T.
C14_Witness ==
    /\ accepted = "true"
    /\ Len(topicsFilter) = 2 /\ Len(logTopics) = 2
    /\ topicsFilter[1].kind = "null"
    /\ topicsFilter[2].kind = "string"
    /\ Stripped(topicsFilter[2].items[1]) # Stripped(logTopics[2])
    /\ Stripped(logTopics[2]) # << >>

\* ------------------------------------------------------ the decoders ----
REVERT_FUNCTION_SELECTOR == << "0", "x", "0", "8", "c", "3", "7", "9", "a", "0" >>
REVERT_PANIC_SELECTOR == << "0", "x", "4", "e", "4", "8", "7", "b", "7", "1" >>

\* The offset parseRevertReason skips: 0x, the selector and two words.
RevertHeadLength == 138

\* parseRevertReason(revertOutput): one character, by its code, for every
\* pair of hex digits after the head (a last single digit is a pair too)
parseRevertReason(output) ==
    IF ~TruthyString(output) \/ Len(output) < RevertHeadLength
    THEN << >>
    ELSE LET trimmedOutput == SubSeq(output, RevertHeadLength + 1, Len(output))
         IN  [ k \in 1..((Len(trimmedOutput) + 1) \div 2) |->
                 ParseHexDigits(Substr(trimmedOutput, 2 * (k - 1), 2)) ]

PanicAssert == "If you call assert with an argument that evaluates to false."
PanicArithmetic == "If an arithmetic operation results in underflow or overflow outside of an unchecked { ... } block."
PanicDivision == "If you divide or modulo by zero (e.g. 5 / 0 or 23 % 0)."
PanicEnum == "If you convert a value that is too big or negative into an enum type."
PanicPop == "If you call .pop() on an empty array."
PanicBounds == "If you access an array, bytesN or an array slice at an out-of-bounds or negative index (i.e. x[i] where i >= x.length or i < 0)."
PanicMemory == "If you allocate too much memory or create an array that is too large."
PanicFunction == "If you call a zero-initialized variable of internal function type."
PanicDefault == "Default panic message"

\* String.prototype.slice(-n)
SliceLast(s, n) == IF Len(s) <= n THEN s ELSE SubSeq(s, Len(s) - n + 1, Len(s))

\* The switch of parsePanicReason over the two characters it is given.
PanicMessage(trimmedOutput) ==
    CASE trimmedOutput = << "0", "1" >> -> PanicAssert
      [] trimmedOutput = << "1", "1" >> -> PanicArithmetic
      [] trimmedOutput = << "1", "2" >> -> PanicDivision
      [] trimmedOutput = << "2", "1" >> -> PanicEnum
      [] trimmedOutput = << "3", "1" >> -> PanicPop
      [] trimmedOutput = << "3", "2" >> -> PanicBounds
      [] trimmedOutput = << "4", "1" >> -> PanicMemory
      [] trimmedOutput = << "5", "1" >> -> PanicFunction
      [] OTHER -> PanicDefault

\* parsePanicReason if it read the first byte after the selector
parsePanicReason_FirstByte(output) == PanicMessage(Substr(output, 10, 2))

\* parsePanicReason(revertOutput)
parsePanicReason(output) == PanicMessage(SliceLast(output, 2))

\* The ABI encoding of a revert with reason string str (characters by
\* code): selector, offset word, length word, the bytes of the string
\* padded with zeros to a multiple of 32 bytes.
Word(n) == PadStart(ToString16(n), 64, "0")

HexOfByte(b) == << HexDigit(b \div 16), HexDigit(b % 16) >>

RECURSIVE HexOfBytes(_)
HexOfBytes(bytes) ==
    IF bytes = << >> THEN << >> ELSE HexOfByte(Head(bytes)) \o HexOfBytes(Tail(bytes))

Zeros(n) == [ k \in 1..n |-> "0" ]

AbiEncodeRevert(str) ==
    REVERT_FUNCTION_SELECTOR \o Word(32) \o Word(Len(str)) \o HexOfBytes(str)
        \o Zeros((64 - ((2 * Len(str)) % 64)) % 64)

\* The reason strings tried: the short strings over two letters, "execution
\* failed", and a string that fills its word.
MaxReason == 2

ExecutionFailed ==
    << 101, 120, 101, 99, 117, 116, 105, 111, 110, 32, 102, 97, 105, 108, 101, 100 >>

ReasonStrings ==
    SeqsUpTo({ 97, 98 }, MaxReason) \cup { ExecutionFailed, [ k \in 1..32 |-> 97 ] }

HexPairs == { << HexDigit(a), HexDigit(b) >> : a, b \in 0..15 }

\* The payloads handed to the decoders: the encodings of the reason
\* strings, every proper prefix of one of them that is shorter than the
\* head, the undefined payload, and panic payloads of three lengths with
\* every last byte.
FailurePayloads ==
    { AbiEncodeRevert(str) : str \in ReasonStrings }
    \cup { SubSeq(AbiEncodeRevert(ExecutionFailed), 1, n) : n \in 0..(RevertHeadLength - 1) }
    \cup { Undef }
    \cup { REVERT_PANIC_SELECTOR \o middle \o last :
             middle \in { << >>, << "1", "1" >>, Zeros(62) }, last \in HexPairs }
    \cup { REVERT_PANIC_SELECTOR }

InitDecoders ==
    /\ revertOutput \in FailurePayloads
    /\ decoded = "pending"
    /\ reason = << >>
    /\ panicReason = ""
    /\ RpcIdle
    /\ HandlersIdle
    /\ BlockIdle
    /\ TopicsIdle
    /\ CacheIdle

\* parseRevertReason(revertOutput)
ApplyParseRevertReason ==
    /\ decoded = "pending"
    /\ decoded' = "revert"
    /\ reason' = parseRevertReason(revertOutput)
    /\ UNCHANGED << rpcVars, handlerVars, blockVars, topicVars, cacheVars, revertOutput, panicReason >>

\* `if (output.startsWith(REVERT_PANIC_SELECTOR)) ... parsePanicReason(output)`
ApplyParsePanicReason ==
    /\ decoded = "pending"
    /\ StartsWith(revertOutput, REVERT_PANIC_SELECTOR)
    /\ decoded' = "panic"
    /\ panicReason' = parsePanicReason(revertOutput)
    /\ UNCHANGED << rpcVars, handlerVars, blockVars, topicVars, cacheVars, revertOutput, reason >>

NextDecoders == ApplyParseRevertReason \/ ApplyParsePanicReason

SpecDecoders == InitDecoders /\ [][NextDecoders]_vars

\* ------------------------------------------------------------- C15 ----
\* C15: parseRevertReason returns the empty string for every input shorter
\* than 138 hex characters, and for the ABI encoding of a revert string
\* (selector, offset word, length word, the string padded to a multiple of
\* 32 bytes) returns exactly that string.
C15_RevertReasonRoundTrip ==
    decoded = "revert" =>
        /\ Len(revertOutput) < 138 => reason = << >>
        /\ \A str \in ReasonStrings : revertOutput = AbiEncodeRevert(str) => reason = str

\* ------------------------------------------------------------- C16 ----
LastByte == SliceLast(revertOutput, 2)

KnownPanicCodes ==
    { << "0", "1" >>, << "1", "1" >>, << "1", "2" >>, << "2", "1" >>,
      << "3", "1" >>, << "3", "2" >>, << "4", "1" >>, << "5", "1" >> }

\* C16: parsePanicReason depends only on the last byte of its payload: each
\* of the eight known codes gives a message of its own, 0x11 the
\* overflow/underflow message, every other last byte the default message;
\* it answers for every payload that reaches it.
C16_PanicReasonByLastByte ==
    /\ decoded = "panic" =>
          /\ panicReason = parsePanicReason(REVERT_PANIC_SELECTOR \o Zeros(62) \o LastByte)
          /\ LastByte = << "1", "1" >> => panicReason = PanicArithmetic
          /\ LastByte \notin KnownPanicCodes => panicReason = PanicDefault
          /\ LastByte \in KnownPanicCodes =>
                /\ panicReason # PanicDefault
                /\ \A other \in KnownPanicCodes \ { LastByte } :
                      panicReason # parsePanicReason(REVERT_PANIC_SELECTOR \o Zeros(62) \o other)
    /\ (decoded = "pending" /\ StartsWith(revertOutput, REVERT_PANIC_SELECTOR)) =>
          ENABLED ApplyParsePanicReason

\* A payload whose first byte after the selector is 0x11 and whose last
\* byte is another known code was decoded.
C16_Witness ==
    /\ decoded = "panic"
    /\ Substr(revertOutput, 10, 2) = << "1", "1" >>
    /\ LastByte = << "3", "2" >>
    /\ panicReason = PanicBounds

\* ------------------------------------------------- the result cache ----
MaxRequests == 2

ACTION_BLOCK_LAG == 4

\* The keys of the two cached reads: getCurrentBlockNumber(true) and
\* eth_gasPrice.
CacheKeys == { "v1/chain/last_indexed_block", "v1/chain/get_gas_price" }

Null == << "<null>" >>

\* A cache entry: the value last stored (Undef: none) and whether
\* getCachedData still serves it (an entry goes stale with time).
CacheEntry(value, fresh) == [ value |-> value, fresh |-> fresh ]

\* `if (cachedData)`: getCachedData gave a truthy value
CacheHit(entry) == entry.fresh /\ TruthyString(entry.value) /\ entry.value # Null

\* What the backend can answer a request that missed: for the indexed head
\* the block_num of the newest delta record ("none": no hit), for the gas
\* price a hex string or something parseInt cannot read.
BackendAnswers(key) ==
    IF key = "v1/chain/last_indexed_block"
    THEN { [ hit |-> TRUE, number |-> 20, text |-> << >> ],
           [ hit |-> TRUE, number |-> 21, text |-> << >> ],
           [ hit |-> FALSE, number |-> 0, text |-> << >> ] }
    ELSE { [ hit |-> TRUE, number |-> 0, text |-> << "1", "4" >> ],
           [ hit |-> TRUE, number |-> 0, text |-> << "6", "4" >> ],
           [ hit |-> TRUE, number |-> 0, text |-> << "z" >> ] }

NoAnswer == [ hit |-> FALSE, number |-> -1, text |-> << >> ]

IsHexString(t) ==
    /\ Len(t) > 0
    /\ \A k \in 1..Len(t) :
          t[k] \in { "0", "1", "2", "3", "4", "5", "6", "7", "8", "9",
                     "a", "b", "c", "d", "e", "f" }

\* The value a request derives from the backend's answer:
\* getCurrentBlockNumber(true), `"0x" + (Number(block_num) - ACTION_BLOCK_LAG).toString(16)`
\* (NaN without a hit), and eth_gasPrice, the price raised by 5 per cent and
\* floored, null when it is not a number.
DerivedValue(key, answer) ==
    IF key = "v1/chain/last_indexed_block"
    THEN IF answer.hit
         THEN << "0", "x" >> \o ToString16(answer.number - ACTION_BLOCK_LAG)
         ELSE << "0", "x", "N", "a", "N" >>
    ELSE IF IsHexString(answer.text)
         THEN << "0", "x" >> \o ToString16((ParseHexDigits(answer.text) * 105) \div 100)
         ELSE Null

\* setCachedData(hash, path, value) if it kept an entry that is there
setCachedData_KeepExisting(c, key, value) ==
    IF c[key].value # Undef THEN c ELSE [ c EXCEPT ![key] = CacheEntry(value, TRUE) ]

\* setCachedData(hash, path, value)
setCachedData(c, key, value) == [ c EXCEPT ![key] = CacheEntry(value, TRUE) ]

Requests == 1..MaxRequests

InitialRequest(key) ==
    [ key |-> key, pc |-> "start", hit |-> FALSE, queried |-> FALSE,
      answer |-> NoAnswer, result |-> Undef ]

\* The setCachedData calls of earlier requests that left the keys in
\* `stored` holding a value, as records of `writes` made by request 0.
EarlierWrites(stored) ==
    (IF "v1/chain/last_indexed_block" \in stored
     THEN << [ key |-> "v1/chain/last_indexed_block", value |-> << "0", "x", "f" >>, by |-> 0 ] >>
     ELSE << >>)
    \o (IF "v1/chain/get_gas_price" \in stored
        THEN << [ key |-> "v1/chain/get_gas_price", value |-> << "0", "x", "f" >>, by |-> 0 ] >>
        ELSE << >>)

InitCache ==
    /\ \E stored \in SUBSET CacheKeys :
          /\ cache = [ key \in CacheKeys |->
                         IF key \in stored
                         THEN CacheEntry(<< "0", "x", "f" >>, TRUE)
                         ELSE CacheEntry(Undef, FALSE) ]
          /\ writes = EarlierWrites(stored)
    /\ req \in { [ r \in Requests |-> InitialRequest(keys[r]) ] :
                   keys \in [ Requests -> CacheKeys ] }
    /\ RpcIdle
    /\ HandlersIdle
    /\ BlockIdle
    /\ TopicsIdle
    /\ DecodersIdle

\* getCachedData and `if (cachedData) return cachedData`; on a miss the
\* backend is asked and the request is suspended at the await.
CacheLookup(r) ==
    /\ req[r].pc = "start"
    /\ IF CacheHit(cache[req[r].key])
       THEN req' = [ req EXCEPT ![r].pc = "done", ![r].hit = TRUE,
                                ![r].result = cache[req[r].key].value ]
       ELSE req' = [ req EXCEPT ![r].pc = "waiting", ![r].queried = TRUE ]
    /\ UNCHANGED << rpcVars, handlerVars, blockVars, topicVars, decoderVars, cache, writes >>

\* The backend answers: the value is derived, stored and returned.
BackendAnswer(r) ==
    /\ req[r].pc = "waiting"
    /\ \E answer \in BackendAnswers(req[r].key) :
          LET value == DerivedValue(req[r].key, answer)
          IN  /\ cache' = setCachedData(cache, req[r].key, value)
              /\ writes' = Append(writes, [ key |-> req[r].key, value |-> value, by |-> r ])
              /\ req' = [ req EXCEPT ![r].pc = "done", ![r].answer = answer,
                                       ![r].result = value ]
    /\ UNCHANGED << rpcVars, handlerVars, blockVars, topicVars, decoderVars >>

\* The backend throws: the request fails without storing anything.
BackendFailure(r) ==
    /\ req[r].pc = "waiting"
    /\ req' = [ req EXCEPT ![r].pc = "failed" ]
    /\ UNCHANGED << rpcVars, handlerVars, blockVars, topicVars, decoderVars, cache, writes >>

\* A stored value goes stale: getCachedData stops serving it.
CacheExpire(key) ==
    /\ cache[key].fresh
    /\ cache' = [ cache EXCEPT ![key].fresh = FALSE ]
    /\ UNCHANGED << rpcVars, handlerVars, blockVars, topicVars, decoderVars, req, writes >>

NextCache ==
    \/ \E r \in Requests : CacheLookup(r)
    \/ \E r \in Requests : BackendAnswer(r)
    \/ \E r \in Requests : BackendFailure(r)
    \/ \E key \in CacheKeys : CacheExpire(key)

SpecCache == InitCache /\ [][NextCache]_vars

\* ------------------------------------------------------------- C17 ----
WritesOf(key) == { j \in 1..Len(writes) : writes[j].key = key }

LastWriteOf(key) == CHOOSE j \in WritesOf(key) : \A o \in WritesOf(key) : o <= j

\* C17: for concurrent requests that miss the cache on the same key, under
\* every interleaving each request returns the value derived from an answer
\* the backend gave it or a value that was cached earlier, the cache holds
\* the value of the last writer, and a request that hits the cache makes no
\* backend query.
C17_CacheRace ==
    /\ \A r \in DOMAIN req :
          req[r].pc = "done" =>
              IF req[r].hit
              THEN /\ ~req[r].queried
                   /\ \E j \in WritesOf(req[r].key) :
                         writes[j].by # r /\ writes[j].value = req[r].result
              ELSE /\ req[r].queried
                   /\ req[r].answer \in BackendAnswers(req[r].key)
                   /\ req[r].result = DerivedValue(req[r].key, req[r].answer)
    /\ \A key \in DOMAIN cache :
          WritesOf(key) # {} => cache[key].value = writes[LastWriteOf(key)].value

\* Two requests missed on the same key, got different answers and both
\* wrote; the first to ask was the last to write.
C17_Witness ==
    /\ Len(req) >= 2
    /\ req[1].key = req[2].key
    /\ req[1].pc = "done" /\ req[2].pc = "done"
    /\ ~req[1].hit /\ ~req[2].hit
    /\ req[1].result # req[2].result
    /\ writes[Len(writes)].by = 1
    /\ writes[Len(writes) - 1].by = 2
    /\ cache[req[1].key].value = req[1].result

\* ------------------------------------------------------------- C18 ----
HasHandler(k) == IsRequest(k) /\ ValidVersion(k) /\ ~UnknownMethod(k)

\* C18: in a batch every entry's handler is started before the dispatcher
\* waits for any entry's result: while the loop has entries left its next
\* call can be made whatever the earlier handlers are doing, and when the
\* dispatcher reaches the join every entry has been dispatched and every
\* entry that has a handler has had it started.
C18_AllStartedBeforeJoin ==
    /\ (pc = "loop" /\ i <= N) => ENABLED Dispatch
    /\ pc = "join" =>
          /\ Len(promises) = N
          /\ \A k \in 1..N : HasHandler(k) => k \in invoked

\* At the join the first entry's handler is still running and a later
\* entry's handler was started.
C18_Witness ==
    /\ pc = "join"
    /\ N >= 2
    /\ promises[1].settle = "pending"
    /\ \E k \in 2..N : k \in invoked

\* ------------------------------------------------------------- C19 ----
\* The array a finished eth_getLogs request returned.
LogsReturned == Len(outcomes) = 1 /\ outcomes[1].type = "result" /\ payload \in GetLogsRequests

ReturnedLogs == outcomes[1].result

\* The receipt a returned log comes from, and the log's place in it.
ReceiptOf(l) == CHOOSE d \in index : d.hash = l.transactionHash

StoredPosition(l) ==
    CHOOSE p \in 1..Len(ReceiptOf(l).logs) :
        /\ ReceiptOf(l).logs[p].address = l.address
        /\ ReceiptOf(l).logs[p].topics = l.topics

\* C19: eth_getLogs returns the matching logs in ascending order of their
\* receipts' global sequence number, across all blocks of the range, and the
\* logs of one receipt in their stored order.
C19_AscendingGlobalSequence ==
    LogsReturned =>
        \A j, k \in 1..Len(ReturnedLogs) :
            j < k =>
                \/ ReceiptOf(ReturnedLogs[j]).global_sequence
                      < ReceiptOf(ReturnedLogs[k]).global_sequence
                \/ /\ ReceiptOf(ReturnedLogs[j]) = ReceiptOf(ReturnedLogs[k])
                   /\ StoredPosition(ReturnedLogs[j]) < StoredPosition(ReturnedLogs[k])

\* Logs of two blocks were returned, two of them from one receipt.
C19_Witness ==
    /\ LogsReturned
    /\ \E j, k \in 1..Len(ReturnedLogs) :
          j < k /\ ReturnedLogs[j].blockNumber # ReturnedLogs[k].blockNumber
    /\ \E j, k \in 1..Len(ReturnedLogs) :
          j < k /\ ReturnedLogs[j].transactionHash = ReturnedLogs[k].transactionHash

\* ------------------------------------------------------------- C20 ----
\* C20: each returned log carries a block-relative logIndex assigned in
\* result order: 0 for the first returned log of each block, one more for
\* each further returned log of that block.
C20_LogIndexPerBlock ==
    LogsReturned =>
        \A k \in 1..Len(ReturnedLogs) :
            ReturnedLogs[k].logIndex =
                Cardinality({ j \in 1..(k - 1) :
                                ReturnedLogs[j].blockNumber = ReturnedLogs[k].blockNumber })

\* ------------------------------------------------------------- C21 ----
\* Two addresses are the same up to case, the 0x prefix and leading zero
\* bytes: without prefix and in one case, some number of zero bytes put in
\* front of each makes them the same string.
ZeroBytes(n) == [ k \in 1..(2 * n) |-> "0" ]

SameAddress(a, b) ==
    LET x == Strip0x(ToLowerCase(a))
        y == Strip0x(ToLowerCase(b))
    IN  \E m \in 0..(Len(y) \div 2) : \E n \in 0..(Len(x) \div 2) :
            ZeroBytes(m) \o x = ZeroBytes(n) \o y

\* The (document, log) pairs the processing loops of eth_getLogs hand to
\* logFilterMatch when the heads resolve to headFrom and headTo and nothing
\* throws: the logs of the hits that pass the block test.
ReachingMatch(headFrom, headTo) ==
    IF TruthyString(params.blockHash)
    THEN HitLogs(ElasticSearchLogs(index,
                     [ on |-> TRUE, hash |-> Strip0x(params.blockHash) ],
                     [ hasGte |-> FALSE, gte |-> 0, hasLte |-> FALSE, lte |-> 0 ],
                     AddressClause(params.address), TopicsClause(params.topics)))
    ELSE LET fromBlock == BlockParamToNumber(
                 toBlockNumber(IF TruthyBlockParam(params.fromBlock)
                               THEN params.fromBlock ELSE "latest", headFrom))
             toBlock == BlockParamToNumber(
                 toBlockNumber(IF TruthyBlockParam(params.toBlock)
                               THEN params.toBlock ELSE "latest", headTo))
             InRange(pl) == ~(fromBlock > pl.doc.block \/ toBlock < pl.doc.block)
         IN  SelectSeq(HitLogs(ElasticSearchLogs(index,
                                   [ on |-> FALSE, hash |-> << >> ],
                                   [ hasGte |-> fromBlock # 0, gte |-> fromBlock,
                                     hasLte |-> toBlock # 0, lte |-> toBlock ],
                                   AddressClause(params.address),
                                   TopicsClause(params.topics))),
                       InRange)

\* The log of a (document, log) pair is in the returned array.
IsReturned(pl) ==
    \E k \in 1..Len(ReturnedLogs) :
        /\ ReturnedLogs[k].transactionHash = pl.doc.hash
        /\ ReturnedLogs[k].address = pl.log.address
        /\ ReturnedLogs[k].topics = pl.log.topics

\* The filter names an address: one non-empty string, or a list.
HasAddressFilter ==
    \/ params.address.kind = "array"
    \/ params.address.kind = "string" /\ TruthyString(params.address.items[1])

PassesTopics(pl) ==
    params.topics.kind = "array" => hasTopics(pl.log.topics, params.topics.items)

EmptyAddressList == params.address.kind = "array" /\ params.address.items = << >>

\* C30: eth_getLogs called with an empty address list puts no address
\* constraint in the backend query and returns no log at all, whatever the
\* index holds.
C30_EmptyAddressListReturnsNothing ==
    payload \in GetLogsRequests /\ EmptyAddressList =>
        /\ ~AddressClause(params.address).on
        /\ LogsReturned => ReturnedLogs = << >>

\* The request carried an empty address list and the search found logs,
\* which all were handed to the per-log match.
C30_Witness ==
    /\ LogsReturned
    /\ EmptyAddressList
    /\ \E headFrom, headTo \in Heads \ { "throws" } :
          LET reaching == ReachingMatch(headFrom, headTo)
          IN  /\ outcomes[1] = eth_getLogs(params, index, headFrom, headTo, FALSE)
              /\ \E j \in 1..Len(reaching) : PassesTopics(reaching[j])

\* ------------------------------------------------------------- C27 ----
\* The handler of entry k threw a ledger assertion error (code 3050003)
\* whose details[0].message is a string.
AssertionWithMessage(k) ==
    /\ Raised(k, "assertion")
    /\ outcomes[k].code = EOSIO_ASSERT_CODE
    /\ outcomes[k].details = "message"

HasAssertionPrefix(k) ==
    \E n \in 0..Len(outcomes[k].text) :
        outcomes[k].text = EOSIO_ASSERTION_PREFIX \o SubSeq(outcomes[k].text,
                                                            Len(outcomes[k].text) - n + 1,
                                                            Len(outcomes[k].text))

\* C27: such an error yields an error envelope; when the message starts
\* with 'assertion failure with message: ' the envelope's message is what
\* follows the prefix (the prefix and it make up the message), otherwise it
\* is the message unchanged.
C27_AssertionPrefixStripped ==
    \A k \in 1..Len(promises) : AssertionWithMessage(k) =>
        /\ promises[k].settle = "fulfilled"
        /\ promises[k].envelope.hasError
        /\ IF HasAssertionPrefix(k)
           THEN EOSIO_ASSERTION_PREFIX \o promises[k].envelope.message = outcomes[k].text
           ELSE promises[k].envelope.message = outcomes[k].text

\* One entry failed with a prefixed message and got the remainder, another
\* with a message that only begins like the prefix and got it whole.
C27_Witness ==
    \E j, k \in 1..Len(promises) :
        /\ AssertionWithMessage(j) /\ HasAssertionPrefix(j)
        /\ promises[j].envelope.message = MsgBoom
        /\ AssertionWithMessage(k) /\ outcomes[k].text = MsgShort
        /\ promises[k].envelope.message = MsgShort

\* ----------------------------------------------------------- traces ----
MaxItxs == 2

\* `'0x' + s`
Hex0x(s) == << "0", "x" >> \o s

\* toChecksumAddress(address): lower case, no prefix, padded to 40 digits,
\* prefixed; the upper-casing of digits by the keccak hash is left out.
toChecksumAddress(address) ==
    IF ~TruthyString(address)
    THEN address
    ELSE Hex0x(PadStart(Strip0x(ToLowerCase(address)), 40, "0"))

\* toOpname(opcode)
toOpname(opcode) ==
    CASE opcode = "f0" -> "create"
      [] opcode = "f1" -> "call"
      [] opcode = "f4" -> "delegatecall"
      [] opcode = "f5" -> "create2"
      [] opcode = "fa" -> "staticcall"
      [] opcode = "ff" -> "selfdestruct"
      [] OTHER -> "unkown"

\* A member of a receipt that may be missing: not set, or a list.
NotSet == [ defined |-> FALSE, items |-> << >> ]
ListOf(items) == [ defined |-> TRUE, items |-> items ]

\* The call-type codes of the stored internal calls: the six of the table
\* of toOpname and two others.
Opcodes == { "f0", "f1", "f4", "f5", "fa", "ff", "f2", "00" }

\* The internal call stored at place p of a receipt, with call-type code c.
Itx(c, p) ==
    [ callType |-> c, from |-> AddrAB, to |-> Addr00CD,
      gas |-> ToString16(100 + p), input |-> << "a", HexDigit(p) >>,
      value |-> << "0" >>, gasUsed |-> ToString16(p), output |-> << >>,
      subtraces |-> 0, traceAddress |-> << p - 1 >>,
      type |-> IF c \in { "f0", "f5" } THEN "create" ELSE "call" ]

ItxLists ==
    UNION { { [ p \in 1..n |-> Itx(cs[p], p) ] : cs \in [1..n -> Opcodes] } : n \in 0..MaxItxs }

MsgOutOfGas == << "out of gas" >>

ErrorLists == { NotSet, ListOf(<< >>), ListOf(<< MsgRevert >>), ListOf(<< MsgOutOfGas, MsgRevert >>) }

\* A receipt of the action index (the @raw member of the document).
TraceReceipt(hash, trx_index, itxs, errors) ==
    [ block |-> 1, block_hash |-> HashB1, hash |-> hash, trx_index |-> trx_index,
      gasused |-> 21000, from |-> AddrAB, to |-> Addr00CD, value |-> << "0" >>,
      input_data |-> << "0", "x" >>, output |-> << "c", "0" >>,
      itxs |-> itxs, errors |-> errors ]

\* The block/transaction linkage of a filter-mode trace.
Linkage(receipt) ==
    [ blockHash |-> Hex0x(receipt.block_hash), blockNumber |-> receipt.block,
      transactionHash |-> receipt.hash, transactionPosition |-> receipt.trx_index ]

\* makeInitialTrace(receipt, adHoc), for a receipt that has itxs.  `error`
\* and `link` are lists of no or one element: the members are set or not.
makeInitialTrace(receipt, adHoc) ==
    LET gas == Hex0x(ToString16(receipt.gasused))
    IN  [ action |-> [ callType |-> "call", from |-> toChecksumAddress(receipt.from),
                       gas |-> gas, input |-> receipt.input_data,
                       to |-> toChecksumAddress(receipt.to),
                       value |-> Hex0x(receipt.value) ],
          result |-> [ gasUsed |-> gas, output |-> Hex0x(receipt.output) ],
          subtraces |-> Len(receipt.itxs.items),
          traceAddress |-> << >>,
          type |-> "call",
          error |-> IF receipt.errors.defined /\ Len(receipt.errors.items) > 0
                    THEN << receipt.errors.items[1] >>
                    ELSE << >>,
          link |-> IF adHoc THEN << >> ELSE << Linkage(receipt) >> ]

\* makeTrace(receipt, itx, adHoc)
makeTrace(receipt, itx, adHoc) ==
    [ action |-> [ callType |-> toOpname(itx.callType), from |-> toChecksumAddress(itx.from),
                   gas |-> Hex0x(itx.gas), input |-> Hex0x(itx.input),
                   to |-> toChecksumAddress(itx.to), value |-> Hex0x(itx.value) ],
      result |-> [ gasUsed |-> Hex0x(itx.gasUsed), output |-> Hex0x(itx.output) ],
      subtraces |-> itx.subtraces,
      traceAddress |-> itx.traceAddress,
      type |-> itx.type,
      error |-> << >>,
      link |-> IF adHoc THEN << >> ELSE << Linkage(receipt) >> ]

\* What a trace handler produced: nothing yet, null, a bare list of traces,
\* the ad-hoc envelope, or an exception.
TraceResult(kind, output, stateDiff, trace, vmTrace) ==
    [ kind |-> kind, output |-> output, stateDiff |-> stateDiff, trace |-> trace,
      vmTrace |-> vmTrace ]

TracesPending == TraceResult("pending", << >>, "absent", << >>, "absent")
TracesNull == TraceResult("null", << >>, "absent", << >>, "absent")
TracesThrew == TraceResult("threw", << >>, "absent", << >>, "absent")
TraceList(trace) == TraceResult("list", << >>, "absent", trace, "absent")

\* makeTraces if it left out the trace of the top-level call
makeTraces_WithoutInitialTrace(receipt, adHoc) ==
    IF ~receipt.itxs.defined
    THEN TracesThrew
    ELSE LET results == [ k \in 1..Len(receipt.itxs.items) |->
                            makeTrace(receipt, receipt.itxs.items[k], adHoc) ]
         IN  IF ~adHoc
             THEN TraceList(results)
             ELSE TraceResult("envelope", Hex0x(receipt.output), "null", results, "null")

\* makeTraces(receipt, adHoc); reading `receipt.itxs.length` of a receipt
\* without itxs throws a TypeError.
makeTraces(receipt, adHoc) ==
    IF ~receipt.itxs.defined
    THEN TracesThrew
    ELSE LET results == << makeInitialTrace(receipt, adHoc) >>
                        \o [ k \in 1..Len(receipt.itxs.items) |->
                               makeTrace(receipt, receipt.itxs.items[k], adHoc) ]
         IN  IF ~adHoc
             THEN TraceList(results)
             ELSE TraceResult("envelope", Hex0x(receipt.output), "null", results, "null")

\* getTracesForTrx(trxHash, adHoc).  found: the documents searchActionByHash
\* gets for the hash (none when the search threw: it returns null then).
getTracesForTrx(trxHash, adHoc, found) ==
    IF ~TruthyString(trxHash) THEN TracesNull
    ELSE IF found = << >> THEN TracesNull
    ELSE IF found[1].itxs.defined THEN makeTraces(found[1], adHoc)
    ELSE TracesNull

\* receipts.sort((a, b) => a.trx_index - b.trx_index): a stable sort
RECURSIVE SortByTrxIndex(_)
SortByTrxIndex(rs) ==
    IF rs = << >> THEN << >>
    ELSE LET m == CHOOSE k \in 1..Len(rs) :
                     /\ \A j \in 1..Len(rs) : rs[k].trx_index <= rs[j].trx_index
                     /\ \A j \in 1..(k - 1) : rs[j].trx_index # rs[k].trx_index
         IN  << rs[m] >> \o SortByTrxIndex([ j \in 1..(Len(rs) - 1) |->
                                               IF j < m THEN rs[j] ELSE rs[j + 1] ])

\* The loop of trace_block over the sorted receipts: each iteration calls
\* makeTraces and evaluates `traces.concat(traces, trxTraces)`, which builds
\* a new array and leaves `traces` as it is.
RECURSIVE TraceBlockLoop(_, _)
TraceBlockLoop(sortedReceipts, traceList) ==
    IF sortedReceipts = << >> THEN TraceList(traceList)
    ELSE IF makeTraces(Head(sortedReceipts), FALSE).kind = "threw" THEN TracesThrew
    ELSE TraceBlockLoop(Tail(sortedReceipts), traceList)

\* trace_block([block]).  hits: what getReceiptsByTerm returns, or a throw
\* of toBlockNumber or of the search.
trace_block(hits, searchThrows) ==
    IF searchThrows THEN TracesThrew
    ELSE TraceBlockLoop(SortByTrxIndex(hits), << >>)

\* trace_replayTransaction([trxHash, traceTypes])
trace_replayTransaction(trxHash, traceTypes, found) ==
    IF Len(traceTypes) # 1 \/ traceTypes[1] # "trace"
    THEN TracesThrew
    ELSE getTracesForTrx(trxHash, TRUE, found)

\* trace_transaction([trxHash])
trace_transaction(trxHash, found) == getTracesForTrx(trxHash, FALSE, found)

\* ------------------------------------------------- trace requests ----
HashTx == << "0", "x", "a", "1" >>

\* The receipts a transaction trace request may find under its hash.
TraceReceipts ==
    { TraceReceipt(HashTx, 0, itxs, errors) :
        itxs \in { ListOf(l) : l \in ItxLists } \cup { NotSet }, errors \in ErrorLists }

\* The receipts of the block a trace_block request asks for, in the order
\* the search returns them.
BlockReceipt(n, trx_index) ==
    TraceReceipt(<< "0", "x", "b", HexDigit(n) >>, trx_index,
                 ListOf([ p \in 1..n |-> Itx("f1", p) ]), ListOf(<< >>))

BlockHits ==
    { << >>, << BlockReceipt(1, 0) >>, << BlockReceipt(0, 3) >>,
      << BlockReceipt(1, 1), BlockReceipt(2, 0) >>,
      << BlockReceipt(0, 0), BlockReceipt(1, 1) >>,
      << TraceReceipt(HashTx, 0, NotSet, NotSet) >> }

TraceRequests ==
    { [ method |-> "trace_transaction", trxHash |-> h, traceTypes |-> << >>,
        found |-> f, searchThrows |-> FALSE ] :
        h \in { HashTx, << >> }, f \in { << >> } \cup { << r >> : r \in TraceReceipts } }
    \cup { [ method |-> "trace_replayTransaction", trxHash |-> h, traceTypes |-> t,
             found |-> f, searchThrows |-> FALSE ] :
             h \in { HashTx }, t \in { << "trace" >>, << "vmTrace" >> },
             f \in { << >> } \cup { << r >> : r \in TraceReceipts } }
    \cup { [ method |-> "trace_block", trxHash |-> << >>, traceTypes |-> << >>,
             found |-> f, searchThrows |-> t ] : f \in BlockHits, t \in BOOLEAN }

baseVars == << rpcVars, blockVars, topicVars, decoderVars, cacheVars >>

BaseIdle == RpcIdle /\ BlockIdle /\ TopicsIdle /\ DecodersIdle /\ CacheIdle

InitTraces ==
    /\ traced \in TraceRequests
    /\ traces = TracesPending
    /\ BaseIdle
    /\ FilterIdle
    /\ RawIdle
    /\ LogsIdle

TraceTransaction ==
    /\ traced.method = "trace_transaction"
    /\ traces.kind = "pending"
    /\ traces' = trace_transaction(traced.trxHash, traced.found)
    /\ UNCHANGED << baseVars, filterVars, rawVars, logsVars, traced >>

TraceReplayTransaction ==
    /\ traced.method = "trace_replayTransaction"
    /\ traces.kind = "pending"
    /\ traces' = trace_replayTransaction(traced.trxHash, traced.traceTypes, traced.found)
    /\ UNCHANGED << baseVars, filterVars, rawVars, logsVars, traced >>

TraceBlock ==
    /\ traced.method = "trace_block"
    /\ traces.kind = "pending"
    /\ traces' = trace_block(traced.found, traced.searchThrows)
    /\ UNCHANGED << baseVars, filterVars, rawVars, logsVars, traced >>

NextTraces == TraceTransaction \/ TraceReplayTransaction \/ TraceBlock

SpecTraces == InitTraces /\ [][NextTraces]_vars

\* ------------------------------------------------------------- C23 ----
\* A transaction trace request that gets as far as makeTraces: the hash is
\* given, a receipt with itxs is found, the trace types are accepted.
TransactionTraced ==
    /\ traced.method \in { "trace_transaction", "trace_replayTransaction" }
    /\ traces.kind # "pending"
    /\ TruthyString(traced.trxHash)
    /\ traced.found # << >>
    /\ traced.found[1].itxs.defined
    /\ traced.method = "trace_replayTransaction" => traced.traceTypes = << "trace" >>

TracedReceipt == traced.found[1]

TracedItxs == TracedReceipt.itxs.items

\* C23: for a receipt with n internal calls makeTraces emits n + 1 traces:
\* first the trace of the top-level call (type call, empty trace address,
\* subtraces n, the first recorded error if there is one), then one trace
\* per internal call in stored order.  In filter mode the bare list is
\* returned and every trace carries block hash and number and transaction
\* hash and position; in ad-hoc mode no trace carries them and the list is
\* wrapped as {output, stateDiff: null, trace, vmTrace: null}.
C23_MakeTracesShape ==
    TransactionTraced =>
        LET n == Len(TracedItxs)
            t == traces.trace
        IN  /\ traces.kind \in { "list", "envelope" }
            /\ Len(t) = n + 1
            /\ t[1].type = "call"
            /\ t[1].traceAddress = << >>
            /\ t[1].subtraces = n
            /\ t[1].error =
                  (IF TracedReceipt.errors.defined /\ TracedReceipt.errors.items # << >>
                   THEN << Head(TracedReceipt.errors.items) >>
                   ELSE << >>)
            /\ \A k \in 1..n :
                  /\ t[k + 1].traceAddress = TracedItxs[k].traceAddress
                  /\ t[k + 1].type = TracedItxs[k].type
                  /\ t[k + 1].subtraces = TracedItxs[k].subtraces
                  /\ t[k + 1].action.gas = << "0", "x" >> \o TracedItxs[k].gas
                  /\ t[k + 1].action.input = << "0", "x" >> \o TracedItxs[k].input
                  /\ t[k + 1].result.gasUsed = << "0", "x" >> \o TracedItxs[k].gasUsed
            /\ IF traced.method = "trace_transaction"
               THEN /\ traces.kind = "list"
                    /\ \A k \in 1..(n + 1) :
                          t[k].link =
                             << [ blockHash |-> << "0", "x" >> \o TracedReceipt.block_hash,
                                  blockNumber |-> TracedReceipt.block,
                                  transactionHash |-> TracedReceipt.hash,
                                  transactionPosition |-> TracedReceipt.trx_index ] >>
               ELSE /\ traces.kind = "envelope"
                    /\ traces.output = << "0", "x" >> \o TracedReceipt.output
                    /\ traces.stateDiff = "null"
                    /\ traces.vmTrace = "null"
                    /\ \A k \in 1..(n + 1) : t[k].link = << >>

\* An ad-hoc trace of a receipt with MaxItxs internal calls and two recorded
\* errors came back wrapped, its first trace annotated with the first error.
C23_Witness ==
    /\ TransactionTraced
    /\ traced.method = "trace_replayTransaction"
    /\ traces.kind = "envelope"
    /\ Len(TracedItxs) = MaxItxs
    /\ Len(traces.trace) = MaxItxs + 1
    /\ Len(TracedReceipt.errors.items) = 2
    /\ traces.trace[1].error = << MsgOutOfGas >>

\* ------------------------------------------------------------- C24 ----
\* The table of call-type names the claim gives.
OpcodeName(opcode) ==
    CASE opcode = "f0" -> "create"
      [] opcode = "f1" -> "call"
      [] opcode = "f4" -> "delegatecall"
      [] opcode = "f5" -> "create2"
      [] opcode = "fa" -> "staticcall"
      [] opcode = "ff" -> "selfdestruct"
      [] OTHER -> "unknown"

\* C24: the call-type name of the trace of an internal call is the table's
\* name for the call's opcode, and "unknown" for an opcode outside the table.
C24_CallTypeNames ==
    TransactionTraced =>
        \A k \in 1..Len(TracedItxs) :
            traces.trace[k + 1].action.callType = OpcodeName(TracedItxs[k].callType)

\* ------------------------------------------------------------- C26 ----
\* The filter-mode traces of the receipts, receipt after receipt.
RECURSIVE FilterModeTraces(_)
FilterModeTraces(rs) ==
    IF rs = << >> THEN << >>
    ELSE makeTraces(Head(rs), FALSE).trace \o FilterModeTraces(Tail(rs))

\* C26: trace_block on a block that has receipts returns the filter-mode
\* traces of all of them, the receipts taken by ascending transaction
\* position.
C26_TraceBlockReturnsTraces ==
    /\ traced.method = "trace_block"
    /\ traces.kind = "list"
    /\ traced.found # << >>
    => traces.trace = FilterModeTraces(SortByTrxIndex(traced.found))

\* ------------------------------------------------------ trace_filter ----
MaxGroups == 2

\* s.replace(/^0+/, '')
RECURSIVE TrimZeros(_)
TrimZeros(s) == IF s # << >> /\ Head(s) = "0" THEN TrimZeros(Tail(s)) ELSE s

\* `toChecksumAddress(addr).slice(2).replace(/^0+/, '').toLowerCase()`
NormalizedTraceAddress(addr) ==
    LET checksummed == toChecksumAddress(addr)
    IN  ToLowerCase(TrimZeros(SubSeq(checksummed, 3, Len(checksummed))))

\* A fromAddress / toAddress member after the forEach that rewrites it.
NormalizedAddressList(member) ==
    IF member.defined
    THEN ListOf([ k \in 1..Len(member.items) |-> NormalizedTraceAddress(member.items[k]) ])
    ELSE member

\* parseInt(await toBlockNumber(blockParam), 16); 0 stands for the NaN of a
\* block parameter that is not set, which is falsy like 0.
TraceBlockNumber(blockParam, head) ==
    IF blockParam = "undefined" THEN 0
    ELSE BlockParamToNumber(toBlockNumber(blockParam, head))

\* The trace trace_filter builds of an internal call of a hit.
FilterTrace(doc, itx) ==
    [ action |-> [ callType |-> toOpname(itx.callType), from |-> toChecksumAddress(itx.from),
                   gas |-> Hex0x(itx.gas), input |-> Hex0x(itx.input),
                   to |-> toChecksumAddress(itx.to), value |-> Hex0x(itx.value) ],
      result |-> [ gasUsed |-> Hex0x(itx.gasUsed), output |-> Hex0x(itx.output) ],
      subtraces |-> itx.subtraces,
      traceAddress |-> itx.traceAddress,
      type |-> itx.type,
      error |-> << >>,
      link |-> << [ blockHash |-> Hex0x(doc.block_hash), blockNumber |-> doc.block,
                    transactionHash |-> Hex0x(doc.hash),
                    transactionPosition |-> doc.trx_index ] >> ]

\* The processing loops: the traces of all internal calls of the hits.
RECURSIVE FilterTraces(_)
FilterTraces(hits) ==
    IF hits = << >> THEN << >>
    ELSE [ k \in 1..Len(Head(hits).itxs.items) |->
             FilterTrace(Head(hits), Head(hits).itxs.items[k]) ]
         \o FilterTraces(Tail(hits))

\* The documents that satisfy the `must` clauses of the query of a group.
TraceQueryMatches(docs, fromBlock, toBlock, fromAddress, toAddress) ==
    { d \in docs :
        /\ d.itxs.defined
        /\ fromBlock # 0 => d.block >= fromBlock
        /\ toBlock # 0 => d.block <= toBlock
        /\ fromAddress.defined =>
              \E k \in 1..Len(d.itxs.items) : \E a \in 1..Len(fromAddress.items) :
                  d.itxs.items[k].from = fromAddress.items[a]
        /\ toAddress.defined =>
              \E k \in 1..Len(d.itxs.items) : \E a \in 1..Len(toAddress.items) :
                  d.itxs.items[k].to = toAddress.items[a] }

\* fastify.elastic.search with `size: count` and the sort on @raw.trx_index
\* ascending: the first `size` documents of some order of the matches that
\* ascends by trx_index (the backend orders equal positions as it likes).
TraceSearchResults(matches, size) ==
    LET n == Min(size, Cardinality(matches))
    IN  { s \in [1..n -> matches] :
            /\ \A j, k \in 1..n : j < k => s[j] # s[k] /\ s[j].trx_index <= s[k].trx_index
            /\ \A d \in matches :
                  (\A k \in 1..n : s[k] # d) => \A k \in 1..n : s[k].trx_index <= d.trx_index }

\* The catch block of the search if it returned what was collected so far
TraceFilterCatch_ReturnCollected(results) == results

\* The catch block around search and processing: `return []`
TraceFilterCatch(results) == << >>

\* ----------------------------------------------- trace_filter requests ----
ItxBetween(from, to, p) == [ Itx("f1", p) EXCEPT !.from = from, !.to = to ]

AddrCD == << "c", "d" >>

ItxDoc(block, trx_index, n, itxs) ==
    [ TraceReceipt(<< "t", HexDigit(n) >>, trx_index, ListOf(itxs), NotSet)
        EXCEPT !.block = block,
               !.block_hash = IF block = 1 THEN HashB1 ELSE HashB2 ]

ItxDoc1 == ItxDoc(1, 0, 1, << ItxBetween(AddrAB, AddrCD, 1), ItxBetween(AddrCD, AddrAB, 2) >>)
ItxDoc2 == ItxDoc(1, 1, 2, << ItxBetween(AddrAB, AddrAB, 1) >>)
ItxDoc3 == ItxDoc(2, 0, 3, << ItxBetween(AddrCD, AddrCD, 1) >>)

ItxIndexes == { { ItxDoc1, ItxDoc2, ItxDoc3 }, { ItxDoc2 }, { } }

FilterGroups ==
    [ fromAddress : { NotSet, ListOf(<< << "0", "x", "A", "B" >> >>) },
      toAddress : { NotSet, ListOf(<< << "0", "x", "0", "0", "c", "d" >> >>) },
      fromBlock : { "undefined", "latest" },
      toBlock : { "undefined", "0x1" },
      count : { 1, 2 } ]

\* The handler before its first group.  pushed and failedAt are history:
\* how many traces each finished group pushed, and the group whose search
\* failed (0: none).
InitialFilterRun ==
    [ state |-> "running", g |-> 1, results |-> << >>, value |-> << >>,
      pushed |-> << >>, failedAt |-> 0 ]

InitFilter ==
    /\ groups \in UNION { [1..n -> FilterGroups] : n \in 0..MaxGroups }
    /\ itxIndex \in ItxIndexes
    /\ filterRun = InitialFilterRun
    /\ BaseIdle
    /\ TracesIdle
    /\ RawIdle
    /\ LogsIdle

InGroupLoop == filterRun.state = "running" /\ filterRun.g <= Len(groups)

\* One iteration of the loop over the groups whose search and processing
\* succeed: the traces of the hits are pushed.
FilterGroupDone ==
    /\ InGroupLoop
    /\ LET param_obj == groups[filterRun.g]
       IN  \E head \in Heads \ { "throws" } :
              \E hits \in TraceSearchResults(
                              TraceQueryMatches(itxIndex,
                                  TraceBlockNumber(param_obj.fromBlock, head),
                                  TraceBlockNumber(param_obj.toBlock, head),
                                  NormalizedAddressList(param_obj.fromAddress),
                                  NormalizedAddressList(param_obj.toAddress)),
                              param_obj.count) :
                 filterRun' = [ filterRun EXCEPT
                                  !.g = @ + 1,
                                  !.results = @ \o FilterTraces(hits),
                                  !.pushed = Append(@, Len(FilterTraces(hits))) ]
    /\ UNCHANGED << baseVars, traceVars, rawVars, logsVars, groups, itxIndex >>

\* The search of the group throws: the catch block returns.
FilterGroupFails ==
    /\ InGroupLoop
    /\ filterRun' = [ filterRun EXCEPT
                        !.state = "returned",
                        !.value = TraceFilterCatch(filterRun.results),
                        !.failedAt = filterRun.g ]
    /\ UNCHANGED << baseVars, traceVars, rawVars, logsVars, groups, itxIndex >>

\* toBlockNumber throws for a "latest" bound, before the try block: the
\* handler throws.
FilterResolveThrows ==
    /\ InGroupLoop
    /\ "latest" \in { groups[filterRun.g].fromBlock, groups[filterRun.g].toBlock }
    /\ filterRun' = [ filterRun EXCEPT !.state = "threw" ]
    /\ UNCHANGED << baseVars, traceVars, rawVars, logsVars, groups, itxIndex >>

\* `return results` after the last group
FilterReturn ==
    /\ filterRun.state = "running"
    /\ filterRun.g > Len(groups)
    /\ filterRun' = [ filterRun EXCEPT !.state = "returned", !.value = filterRun.results ]
    /\ UNCHANGED << baseVars, traceVars, rawVars, logsVars, groups, itxIndex >>

NextFilter == FilterGroupDone \/ FilterGroupFails \/ FilterResolveThrows \/ FilterReturn

SpecFilter == InitFilter /\ [][NextFilter]_vars

\* ------------------------------------------------------------- C22 ----
\* C22: no filter group contributes more traces to the result of
\* trace_filter than its count.
C22_GroupWithinCount ==
    filterRun.state = "returned" /\ filterRun.failedAt = 0 =>
        /\ Len(filterRun.value) = Len(filterRun.results)
        /\ \A g \in 1..Len(filterRun.pushed) : filterRun.pushed[g] <= groups[g].count

\* ------------------------------------------------------------- C28 ----
\* C28: when the search of a filter group fails, trace_filter returns the
\* empty list as a result, whatever the earlier groups collected; it throws
\* nothing and queries no later group.
C28_SearchFailureReturnsEmpty ==
    filterRun.state # "idle" /\ filterRun.failedAt # 0 =>
        /\ filterRun.state = "returned"
        /\ filterRun.value = << >>
        /\ filterRun.g = filterRun.failedAt
        /\ Len(filterRun.pushed) = filterRun.failedAt - 1

\* The search of the first of two groups succeeded and collected traces,
\* that of the second failed.
C28_Witness ==
    /\ filterRun.state = "returned"
    /\ filterRun.failedAt = 2
    /\ Len(groups) = MaxGroups
    /\ filterRun.results # << >>
    /\ filterRun.value = << >>

\* ------------------------------------------- eth_sendRawTransaction ----
\* err.errorMessage, by the template literal that made it and what was put
\* into it: the characters parseRevertReason returned (by code), the message
\* of parsePanicReason, or receipt.errors[0].
\*   "revert"        `Error: VM Exception while processing transaction:
\*   "panic"            reverted with reason string '<reason>'`
\*   "unrecognized"  `Transaction reverted: function selector was not recognized.`
\*   "exception"     `Error: VM Exception while processing transaction: <cause>`
RawMessage(template, reasonChars, panic, cause) ==
    [ template |-> template, reasonChars |-> reasonChars, panic |-> panic,
      cause |-> cause ]

\* The eth_sendRawTransaction handler.  rawAnswer is what
\* fastify.evm.telos.raw did: it threw, or it answered with a console output
\* whose text between the markers is the receipt, or is not JSON.
eth_sendRawTransaction(rawAnswer) ==
    CASE rawAnswer.kind = "throws" -> OutcomeOther(MsgBoom)
      [] rawAnswer.kind = "garbled" -> OutcomeOther(<< "SyntaxError" >>)
      [] OTHER ->
            LET receipt == rawAnswer.receipt
                output == Hex0x(receipt.output)
                data == [ txHash |-> Hex0x(rawAnswer.transactionHash) ]
            IN  IF receipt.status # 0
                THEN OutcomeResult(Hex0x(rawAnswer.transactionHash))
                ELSE IF StartsWith(output, REVERT_FUNCTION_SELECTOR)
                THEN OutcomeTxError(FALSE, 0,
                         RawMessage("revert", parseRevertReason(output), "", << >>), data)
                ELSE IF StartsWith(output, REVERT_PANIC_SELECTOR)
                THEN OutcomeTxError(FALSE, 0,
                         RawMessage("panic", << >>, parsePanicReason(output), << >>), data)
                ELSE IF /\ receipt.errors.defined
                        /\ Len(receipt.errors.items) > 0
                        /\ Includes(ToLowerCase(receipt.errors.items[1]), MsgRevert)
                THEN OutcomeTxError(FALSE, 0,
                         RawMessage("unrecognized", << >>, "", << >>), data)
                ELSE IF ~receipt.errors.defined
                THEN OutcomeOther(MsgTypeError)   \* `receipt?.errors[0]` of a receipt without errors
                ELSE OutcomeTxError(FALSE, 0,
                         RawMessage("exception", << >>, "",
                                    IF Len(receipt.errors.items) > 0
                                    THEN receipt.errors.items[1] ELSE Undef), data)

\* The receipts the ledger may print: success or failure, with an output
\* that is a string revert (with or without its reason), a panic, empty or
\* something else, and with or without recorded errors.
RawOutputs ==
    { Strip0x(AbiEncodeRevert(<< 97, 98 >>)), Strip0x(REVERT_FUNCTION_SELECTOR),
      Strip0x(REVERT_PANIC_SELECTOR \o Zeros(62) \o << "1", "1" >>),
      Strip0x(REVERT_PANIC_SELECTOR), << >>, << "c", "0" >>,
      << "0", "8", "c", "3" >> }

RawResponses ==
    { [ kind |-> k, transactionHash |-> << "a", "1" >>,
        receipt |-> [ status |-> 1, output |-> << >>, errors |-> NotSet ] ] :
        k \in { "throws", "garbled" } }
    \cup { [ kind |-> "answer", transactionHash |-> h,
             receipt |-> [ status |-> s, output |-> o, errors |-> e ] ] :
             h \in { << "a", "1" >>, << "b", "2" >> }, s \in { 0, 1 }, o \in RawOutputs,
             e \in { NotSet, ListOf(<< >>), ListOf(<< MsgRevert >>), ListOf(<< MsgBoom, MsgRevert >>) } }

RawRequest ==
    [ isNull |-> FALSE, jsonrpc |-> "2.0", id |-> 1, method |-> "eth_sendRawTransaction" ]

InitRaw ==
    /\ rawResponse \in RawResponses
    /\ rawOutcome = [ state |-> "pending" ]
    /\ BaseIdle
    /\ TracesIdle
    /\ FilterIdle
    /\ LogsIdle

\* The handler runs on the ledger's answer and doRpcMethod makes the
\* envelope of what it returned or threw.
SendRawTransaction ==
    /\ rawOutcome.state = "pending"
    /\ LET e == eth_sendRawTransaction(rawResponse)
       IN  rawOutcome' = [ state |-> "done", outcome |-> e,
                           envelope |-> doRpcMethodSettle(RawRequest, e).envelope ]
    /\ UNCHANGED << baseVars, traceVars, filterVars, logsVars, rawResponse >>

NextRaw == SendRawTransaction

SpecRaw == InitRaw /\ [][NextRaw]_vars

\* ------------------------------------------------------------- C25 ----
RawAnswered == rawOutcome.state = "done" /\ rawResponse.kind = "answer"

RawOutput == << "0", "x" >> \o rawResponse.receipt.output

RawHash == << "0", "x" >> \o rawResponse.transactionHash

\* C25: eth_sendRawTransaction returns the 0x-prefixed transaction hash iff
\* the receipt in the console output has a non-zero status; with status 0
\* it always yields the envelope of a TransactionError, whose message comes
\* from the string-revert decoding when the output starts with the
\* string-revert selector and from the panic decoding when it starts with
\* the panic selector.
C25_SendRawTransaction ==
    RawAnswered =>
        /\ ( rawOutcome.envelope.hasResult /\ rawOutcome.envelope.result = RawHash )
              <=> rawResponse.receipt.status # 0
        /\ rawResponse.receipt.status = 0 =>
              /\ rawOutcome.outcome.type = "TransactionError"
              /\ rawOutcome.envelope.hasError
              /\ rawOutcome.envelope.code = 3
              /\ rawOutcome.envelope.data = [ txHash |-> RawHash ]
              /\ StartsWith(RawOutput, REVERT_FUNCTION_SELECTOR) =>
                    /\ rawOutcome.envelope.message.template = "revert"
                    /\ rawOutcome.envelope.message.reasonChars = parseRevertReason(RawOutput)
              /\ StartsWith(RawOutput, REVERT_PANIC_SELECTOR) =>
                    /\ rawOutcome.envelope.message.template = "panic"
                    /\ rawOutcome.envelope.message.panic = parsePanicReason(RawOutput)

\* ------------------------------------- eth_getLogs and its backend ----
\* How the backend answers one eth_getLogs call: what the two calls of
\* toBlockNumber get for a "latest" bound, and whether the search or the
\* processing of a hit throws.
LogsBackends ==
    [ headFrom : Heads, headTo : Heads, failure : { "none", "search", "processing" } ]

\* The filter objects tried against the failing backend: every block
\* selection, no address or one, no topics.
BackendFilterObjects ==
    { f \in FilterObjects : f.topics = TopicsUndefined /\ f.address.kind # "array" }
    \cup { NoParams }

GetLogsRequest ==
    [ isNull |-> FALSE, jsonrpc |-> "2.0", id |-> 1, method |-> "eth_getLogs" ]

\* The handler fails before the search: it reads a member of a missing
\* filter object, finds blockHash combined with a block bound, or
\* toBlockNumber throws for a bound that is "latest" or not set.
ResolvesHead(blockParam) == ~TruthyBlockParam(blockParam) \/ blockParam = "latest"

FailsBeforeSearch ==
    \/ ~params.defined
    \/ /\ TruthyString(params.blockHash)
       /\ TruthyBlockParam(params.fromBlock) \/ TruthyBlockParam(params.toBlock)
    \/ /\ ~TruthyString(params.blockHash)
       /\ \/ ResolvesHead(params.fromBlock) /\ logsBackend.headFrom = "throws"
          \/ ResolvesHead(params.toBlock) /\ logsBackend.headTo = "throws"

InitLogsBackend ==
    /\ params \in BackendFilterObjects
    /\ index \in Indexes
    /\ logsBackend \in LogsBackends
    /\ logsBackend.failure = "processing" =>   \* the processing can only fail on a hit
          /\ ~FailsBeforeSearch
          /\ ReachingMatch(logsBackend.headFrom, logsBackend.headTo) # << >>
    /\ logsReply = [ state |-> "pending" ]
    /\ payload = [ isArray |-> TRUE, entries |-> << >> ]
    /\ hasReply = TRUE
    /\ statusCode = 200
    /\ pc = "start"
    /\ i = 1
    /\ promises = << >>
    /\ invoked = {}
    /\ outcomes = << >>
    /\ response = NoResponse
    /\ BlockIdle
    /\ TopicsIdle
    /\ DecodersIdle
    /\ CacheIdle
    /\ TracesIdle
    /\ FilterIdle
    /\ RawIdle

\* The handler runs against the backend and doRpcMethod makes the envelope
\* of what it returned or threw.
GetLogsAgainstBackend ==
    /\ logsReply.state = "pending"
    /\ LET e == eth_getLogs(params, index, logsBackend.headFrom, logsBackend.headTo,
                            logsBackend.failure # "none")
       IN  logsReply' = [ state |-> "done", outcome |-> e,
                          envelope |-> doRpcMethodSettle(GetLogsRequest, e).envelope ]
    /\ UNCHANGED << baseVars, traceVars, filterVars, rawVars, logsBackend >>

NextLogsBackend == GetLogsAgainstBackend

SpecLogsBackend == InitLogsBackend /\ [][NextLogsBackend]_vars

\* ------------------------------------------------------------- C29 ----
\* C29: when the search of eth_getLogs or the processing of one of its hits
\* fails, the request is answered with the empty list as a result and not
\* with an error envelope; an error envelope comes only from a failure
\* before the search.
C29_SearchFailureReturnsEmpty ==
    logsReply.state = "done" =>
        /\ logsBackend.failure # "none" /\ ~FailsBeforeSearch =>
              /\ logsReply.envelope.hasResult
              /\ ~logsReply.envelope.hasError
              /\ logsReply.envelope.result = << >>
        /\ logsReply.envelope.hasError => FailsBeforeSearch

\* The processing of a hit failed in a request that had logs to return.
C29_Witness ==
    /\ logsReply.state = "done"
    /\ logsBackend.failure = "processing"
    /\ params.address.kind = "undefined"
    /\ logsReply.envelope.hasResult
    /\ logsReply.envelope.result = << >>

====
